---- MODULE Spec2Model ----
(***************************************************************************)
(* A model of the arcade games of the repository, translated from the      *)
(* Python sources.                                                         *)
(*                                                                         *)
(* Units.  Positions are integers in tenths of a pixel (operator Px),      *)
(* speeds are pixels per second and a tick's delta_time is an integer      *)
(* number of hundredths of a second, so that speed * delta_time is         *)
(* (speed * dt) \div 10 tenths of a pixel.  Only even dt are used, which   *)
(* keeps every product exact for the two speeds the code produces (50 and  *)
(* 50 * 0.7 = 35).                                                         *)
(*                                                                         *)
(* Specifications.                                                         *)
(*   Spec      the centipede chain: spawn_centipede, CentipedeSegment.hit  *)
(*             and CentipedeGame._split_centipede_at_segment.              *)
(*   SpecMushroom  the Mushroom life cycle: hit, poison, heal on a player  *)
(*             death, eaten by a Spider.                                   *)
(*   SpecHit   the other damageable entities and their hit() methods.      *)
(*   SpecMove  the locomotion of one CentipedeSegment, update(delta_time), *)
(*             in a mushroom field.                                        *)
(*   SpecWave, SpecFlash, SpecHealth  the shooter: waves, FlashTimer and   *)
(*             the health of the Player.                                   *)
(*   SpecLevel, SpecRates  the level controller of Centipede and the       *)
(*             spawn rates of both controllers.                            *)
(*   SpecSnake  SnakeGame.update; SpecRestart and SpecCounters join the    *)
(*             runs of two games.                                          *)
(*   SpecShot  one Dart and one PlayerBullet through their updates.        *)
(*   SpecBreakout  BreakoutGame.update.                                    *)
(***************************************************************************)
EXTENDS Integers, Sequences, FiniteSets, TLC

VARIABLES
    \* ---- centipede_game.py: CentipedeGame and its scene
    segs,                \* the scene's CentipedeSegment objects, in creation order
    centipede_segments,  \* CentipedeGame.centipede_segments: indexes into segs
    mushrooms,           \* the scene's Mushroom objects, in scene order
    score,               \* CentipedeGame.score
    lives,               \* CentipedeGame.lives
    last_op,             \* the operation that produced the state
    \* ---- one CentipedeSegment followed through its updates (SpecMove)
    seg,
    \* ---- the other damageable entities (SpecHit)
    flea, spider, scorpion, enemy, player_score,
    \* ---- the two game controllers and the shooter's FlashTimer objects
    centipede_game,      \* CentipedeGame: level, chain length, spawn timers and rates
    shooter_game,        \* SpaceShooterGame, its live enemies and its player's health
    flash_timers,        \* the scene's FlashTimer objects, in creation order
    \* ---- snake_game.py
    snake_game,          \* SnakeGame: snake, food, direction, timers, score
    \* ---- one projectile of each kind followed through its updates
    dart,                \* a Dart of centipede_game.py
    bullet,              \* a PlayerBullet of space_shooter.py
    \* ---- breakout_game.py
    breakout_game        \* BreakoutGame: score, lives, bricks, game_state, the ball

chainVars == <<segs, centipede_segments>>
moveVars  == <<seg>>
hitVars   == <<flea, spider, scorpion, enemy, player_score>>
ctlVars   == <<centipede_game, shooter_game, flash_timers, snake_game>>
arcadeVars == <<dart, bullet, breakout_game>>
vars == <<segs, centipede_segments, mushrooms, score, lives, last_op, seg,
          flea, spider, scorpion, enemy, player_score,
          centipede_game, shooter_game, flash_timers, snake_game,
          dart, bullet, breakout_game>>

----------------------------------------------------------------------------
(* Bounds of the model *)

\* segment hits explored from a freshly spawned centipede
MaxHits == 3
\* player deaths explored
MaxDeaths == 4
\* hit() calls explored on one Flea
MaxFleaHits == 4
\* how far below zero repeated hits may drive an Enemy's health
MaxOverkill == 50
\* the score up to which hits of a Spider or a Scorpion are explored
MaxScore == 2500
\* the depth (pixels) down to which a segment is followed
MaxY == 620
\* rows above and below the start row in which the snake is followed
SnakeBand == 1
\* largest score up to which the snake eats
MaxSnakeScore == 10
\* levels of Centipede followed
MaxLevel == 13
\* waves reached by repeated _next_wave
MaxRateWave == 14
\* waves of the shooter followed tick by tick
MaxWave == 3
\* largest value of enemy_spawn_timer followed, in hundredths of a second
MaxTimer == 600
\* FlashTimer objects created
MaxFlash == 3
\* a FlashTimer is followed until its timer reaches this value
MaxFlashTime == 40

(* Program constants *)

InitialCentipedeLength == 12
SegmentSpacing == 16
SpawnY == 50
SpawnLeftX == 50
SpawnRightX == 750
HeadPoints == 100
BodyPoints == 10
MushroomMaxHits == 4
MushroomPoints == 1
SegmentSpeed == 50
InitialLives == 3
RegeneratePoints == 5
FleaHitsRequired == 2
FleaPoints == 200
SpiderPointsBase == 300
ScorpionPoints == 1000
BulletDamage == 25
DartSpeed == 400
DartOffscreenY == -10
FleaSpawnY == -10
BulletSpeed == 600
BulletOffscreenX == 850
EnemySpawnX == 850
BricksPerRow == 15
BallRadius == 4
BreakoutLives == 3
LeftBoundary == 16
RightBoundary == 784
CollisionDistance == 12
DescentDistance == 16
PlayerAreaY == 400
\* spawn rates in hundredths of a second
InitialFleaSpawnRate == 800
InitialSpiderSpawnRate == 1500
InitialScorpionSpawnRate == 2500
ExtraLifeScore == 12000
\* snake_game.py, move_delay in milliseconds
GridWidth == 40
GridHeight == 30
InitialMoveDelay == 150
\* space_shooter.py, times in hundredths of a second
InitialEnemySpawnRate == 200
PowerupSpawnRate == 1000
InitialEnemiesPerWave == 10
PlayerMaxHealth == 100
RamDamage == 20
EnemyBulletDamage == 15
FlashDuration == 10

\* a coordinate or distance of the code (pixels) in the model's unit
Px(n) == n * 10

----------------------------------------------------------------------------
(* Sequence helpers (Python list operations) *)

\* x in lst
Contains(lst, x) == \E i \in 1..Len(lst) : lst[i] = x

\* lst.index(x), 0-based, of the first occurrence
IndexOf(lst, x) ==
    (CHOOSE i \in 1..Len(lst) :
        lst[i] = x /\ \A j \in 1..(i - 1) : lst[j] # x) - 1

\* lst.remove(x): drops the first occurrence
ListRemove(lst, x) ==
    LET i == IndexOf(lst, x) + 1
    IN  SubSeq(lst, 1, i - 1) \o SubSeq(lst, i + 1, Len(lst))

----------------------------------------------------------------------------
(* Mushroom *)

\* Mushroom.__init__
NewMushroom(x, y) ==
    [x |-> x, y |-> y, hits |-> 0, is_poisoned |-> FALSE, is_destroyed |-> FALSE]

\* variant: the comparison is strict, the mushroom survives its 4th hit
mushroom_hit_strict(m) ==
    IF m.is_destroyed
    THEN m
    ELSE [m EXCEPT !.hits = m.hits + 1,
                   !.is_destroyed = (m.hits + 1 > MushroomMaxHits)]

\* variant: a hit washes the poison off
mushroom_hit_clears_poison(m) ==
    IF m.is_destroyed
    THEN m
    ELSE [m EXCEPT !.hits = m.hits + 1,
                   !.is_poisoned = FALSE,
                   !.is_destroyed = (m.hits + 1 >= MushroomMaxHits)]

\* Mushroom.hit: the mushroom after the call
mushroom_hit(m) ==
    IF m.is_destroyed
    THEN m
    ELSE [m EXCEPT !.hits = m.hits + 1,
                   !.is_destroyed = (m.hits + 1 >= MushroomMaxHits)]

\* Mushroom.hit: the points the call awards
mushroom_hit_score(m) ==
    IF ~m.is_destroyed /\ m.hits + 1 >= MushroomMaxHits
    THEN MushroomPoints
    ELSE 0

\* Mushroom.poison
mushroom_poison(m) == [m EXCEPT !.is_poisoned = TRUE]

\* variant: healing leaves the poison
mushroom_heal_keeps_poison(m) == [m EXCEPT !.hits = 0]

\* Mushroom.heal
mushroom_heal(m) == [m EXCEPT !.hits = 0, !.is_poisoned = FALSE]

\* GameObject.destroy
destroy(obj) == [obj EXCEPT !.is_destroyed = TRUE]

\* _regenerate_mushrooms: the mushrooms it heals
regenerated(ms) ==
    {i \in 1..Len(ms) :
        ~ms[i].is_destroyed /\ (ms[i].hits > 0 \/ ms[i].is_poisoned)}

\* Mushroom.hit from a Dart
MushroomHit(i) ==
    /\ mushrooms' = [mushrooms EXCEPT ![i] = mushroom_hit(mushrooms[i])]
    /\ score' = score + mushroom_hit_score(mushrooms[i])
    /\ last_op' = "mushroom_hit"
    /\ UNCHANGED lives

\* Scorpion._poison_nearby_mushrooms reaching live mushroom i
MushroomPoison(i) ==
    /\ ~mushrooms[i].is_destroyed
    /\ mushrooms' = [mushrooms EXCEPT ![i] = mushroom_poison(mushrooms[i])]
    /\ last_op' = "mushroom_poison"
    /\ UNCHANGED <<score, lives>>

\* Spider._eat_nearby_mushrooms reaching live mushroom i
SpiderEat(i) ==
    /\ ~mushrooms[i].is_destroyed
    /\ mushrooms' = [mushrooms EXCEPT ![i] = destroy(mushrooms[i])]
    /\ last_op' = "spider_eat"
    /\ UNCHANGED <<score, lives>>

\* CentipedeGame._player_death, with _regenerate_mushrooms
PlayerDeath ==
    /\ InitialLives - lives < MaxDeaths
    /\ lives' = lives - 1
    /\ last_op' = "player_death"
    /\ IF lives - 1 <= 0
       THEN UNCHANGED <<mushrooms, score>>
       ELSE /\ mushrooms' = [i \in 1..Len(mushrooms) |->
                                IF i \in regenerated(mushrooms)
                                THEN mushroom_heal(mushrooms[i])
                                ELSE mushrooms[i]]
            /\ score' = score + Cardinality(regenerated(mushrooms)) * RegeneratePoints

----------------------------------------------------------------------------
(* CentipedeSegment *)

\* CentipedeSegment.__init__
NewSegment(is_head) ==
    [is_head |-> is_head, is_destroyed |-> FALSE,
     x |-> 0, y |-> 0, dx |-> 1, dy |-> 0,
     speed |-> SegmentSpeed,
     is_descending |-> FALSE, descend_progress |-> 0,
     is_poisoned_descent |-> FALSE, in_player_area |-> FALSE]

\* the segment spawn_centipede creates in iteration i of its loop
SpawnedSegment(start_x, i) ==
    [NewSegment(i = 0) EXCEPT
        !.x = Px(start_x + i * SegmentSpacing),
        !.y = Px(SpawnY),
        !.dx = IF start_x > 400 THEN -1 ELSE 1]

\* CentipedeGame.spawn_centipede: the new segments, in chain order
spawn_centipede(start_x, length) ==
    [i \in 1..length |-> SpawnedSegment(start_x, i - 1)]

----------------------------------------------------------------------------
(* CentipedeGame._split_centipede_at_segment *)

\* variant: the chain is cut at the hit segment, the tail is dropped
split_chain_truncating(chain, hit_segment) ==
    IF ~Contains(chain, hit_segment)
    THEN chain
    ELSE SubSeq(chain, 1, IndexOf(chain, hit_segment))

\* variant: no membership test, an absent segment is looked up as index -1
split_chain_unguarded(chain, hit_segment) ==
    IF ~Contains(chain, hit_segment)
    THEN SubSeq(chain, 1, Len(chain) - 1)
    ELSE ListRemove(chain, hit_segment)

\* variant: the hit segment stays in the tracked chain
split_chain_keeps_hit(chain, hit_segment) == chain

\* the tracked chain after the call
split_chain(chain, hit_segment) ==
    IF ~Contains(chain, hit_segment)
    THEN chain
    ELSE ListRemove(chain, hit_segment)

\* the segments whose is_head the call sets
split_promoted(chain, sg, hit_segment) ==
    IF ~Contains(chain, hit_segment)
    THEN {}
    ELSE
      LET hit_index == IndexOf(chain, hit_segment)
          rest      == ListRemove(chain, hit_segment)
          group     == IF hit_index > 0
                       THEN {rest[i + 1] : i \in {j \in 0..(hit_index - 1) :
                                   j < Len(rest) /\ j = hit_index - 1}}
                       ELSE {}
          first     == IF Len(rest) > 0
                          /\ ~(sg[rest[1]].is_head \/ rest[1] \in group)
                       THEN {rest[1]}
                       ELSE {}
      IN  group \cup first

\* variant: a promoted segment starts over towards the right
split_segs_reset_direction(chain, sg, hit_segment) ==
    [s \in DOMAIN sg |->
        IF s \in split_promoted(chain, sg, hit_segment)
        THEN [sg[s] EXCEPT !.is_head = TRUE, !.dx = 1]
        ELSE sg[s]]

\* the scene's segments after the call
split_segs(chain, sg, hit_segment) ==
    [s \in DOMAIN sg |->
        IF s \in split_promoted(chain, sg, hit_segment)
        THEN [sg[s] EXCEPT !.is_head = TRUE]
        ELSE sg[s]]

----------------------------------------------------------------------------
(* CentipedeSegment.hit *)

\* variant: every segment scores as a body segment
hit_points_body_only(sgm) == BodyPoints

\* the points of a hit
hit_points(sgm) == IF sgm.is_head THEN HeadPoints ELSE BodyPoints

\* the Mushroom a hit adds to the scene
hit_mushroom(sgm) == NewMushroom(sgm.x, sgm.y)

\* the scene's segments after hit() of segment s
hit_segs(chain, sg, s) ==
    LET after == split_segs(chain, sg, s)
    IN  [after EXCEPT ![s].is_destroyed = TRUE]

NumDestroyed == Cardinality({s \in DOMAIN segs : segs[s].is_destroyed})

SegmentHit(s) ==
    IF segs[s].is_destroyed
    THEN /\ last_op' = "hit_destroyed"
         /\ UNCHANGED <<segs, centipede_segments, mushrooms, score, lives>>
    ELSE /\ NumDestroyed < MaxHits
         /\ score' = score + hit_points(segs[s])
         /\ mushrooms' = Append(mushrooms, hit_mushroom(segs[s]))
         /\ centipede_segments' = split_chain(centipede_segments, s)
         /\ segs' = hit_segs(centipede_segments, segs, s)
         /\ last_op' = "hit"
         /\ UNCHANGED lives

\* _split_centipede_at_segment called with a segment that is not tracked
SplitAbsent(s) ==
    /\ ~Contains(centipede_segments, s)
    /\ centipede_segments' = split_chain(centipede_segments, s)
    /\ segs' = split_segs(centipede_segments, segs, s)
    /\ last_op' = "split_absent"
    /\ UNCHANGED <<mushrooms, score, lives>>

----------------------------------------------------------------------------
(* CentipedeSegment.update *)

\* speed * delta_time, in tenths of a pixel
move_distance(sgm, dt) == (sgm.speed * dt) \div 10

\* new_pos of _handle_horizontal_movement
new_pos_x(sgm, dt) == sgm.x + sgm.dx * move_distance(sgm, dt)
new_pos_y(sgm, dt) == sgm.y + sgm.dy * move_distance(sgm, dt)

\* new_pos.x <= 16 or new_pos.x >= 784
at_boundary(px) == px <= Px(LeftBoundary) \/ px >= Px(RightBoundary)

\* new_pos.distance_to(mushroom) < 12, for a live mushroom
overlaps(m, px, py) ==
    /\ ~m.is_destroyed
    /\ (px - m.x) * (px - m.x) + (py - m.y) * (py - m.y)
          < Px(CollisionDistance) * Px(CollisionDistance)

\* _check_mushroom_collision: the mushroom that ends its loop (0: none)
first_collision(ms, px, py) ==
    IF \E i \in 1..Len(ms) : overlaps(ms[i], px, py)
    THEN CHOOSE i \in 1..Len(ms) :
            overlaps(ms[i], px, py)
            /\ \A j \in 1..(i - 1) : ~overlaps(ms[j], px, py)
    ELSE 0

\* variant: the direction is left as it was
start_poison_descent_keep_direction(sgm) ==
    [sgm EXCEPT !.is_poisoned_descent = TRUE, !.is_descending = FALSE]

\* _start_poison_descent
start_poison_descent(sgm) ==
    [sgm EXCEPT !.dx = 0, !.dy = 1,
                !.is_poisoned_descent = TRUE,
                !.is_descending = FALSE]

\* _start_descent
start_descent(sgm) ==
    [sgm EXCEPT !.is_descending = TRUE, !.descend_progress = 0]

\* _check_mushroom_collision: the segment after the call
check_mushroom_collision(sgm, ms, px, py) ==
    LET i == first_collision(ms, px, py)
    IN  IF i # 0 /\ ms[i].is_poisoned
        THEN start_poison_descent(sgm)
        ELSE sgm

\* variant: the prospective move is committed before the descent starts
handle_horizontal_movement_partial(sgm, dt, ms) ==
    LET px == new_pos_x(sgm, dt)
        py == new_pos_y(sgm, dt)
    IN  IF at_boundary(px)
        THEN start_descent(sgm)
        ELSE IF first_collision(ms, px, py) # 0
        THEN [start_descent(check_mushroom_collision(sgm, ms, px, py))
                 EXCEPT !.x = px, !.y = py]
        ELSE [sgm EXCEPT !.x = px, !.y = py]

\* _handle_horizontal_movement
handle_horizontal_movement(sgm, dt, ms) ==
    LET px == new_pos_x(sgm, dt)
        py == new_pos_y(sgm, dt)
    IN  IF at_boundary(px)
        THEN start_descent(sgm)
        ELSE IF first_collision(ms, px, py) # 0
        THEN start_descent(check_mushroom_collision(sgm, ms, px, py))
        ELSE [sgm EXCEPT !.x = px, !.y = py]

\* variant: the finished descent keeps the direction
handle_descent_no_reverse(sgm, dt) ==
    LET progress == sgm.descend_progress + 2 * move_distance(sgm, dt)
    IN  IF progress >= Px(DescentDistance)
        THEN [sgm EXCEPT !.is_descending = FALSE,
                         !.descend_progress = 0,
                         !.is_poisoned_descent = FALSE]
        ELSE [sgm EXCEPT !.descend_progress = progress,
                         !.y = sgm.y + 2 * move_distance(sgm, dt)]

\* _handle_descent
handle_descent(sgm, dt) ==
    LET progress == sgm.descend_progress + 2 * move_distance(sgm, dt)
    IN  IF progress >= Px(DescentDistance)
        THEN [sgm EXCEPT !.is_descending = FALSE,
                         !.descend_progress = 0,
                         !.dx = -sgm.dx,
                         !.is_poisoned_descent = FALSE]
        ELSE [sgm EXCEPT !.descend_progress = progress,
                         !.y = sgm.y + 2 * move_distance(sgm, dt)]

\* variant: the speed is reduced in every update below the line
enter_player_area_every_tick(sgm) ==
    [sgm EXCEPT !.in_player_area = TRUE,
                !.speed = (sgm.speed * 7) \div 10]

\* _enter_player_area
enter_player_area(sgm) ==
    IF ~sgm.in_player_area
    THEN [sgm EXCEPT !.in_player_area = TRUE,
                     !.speed = (sgm.speed * 7) \div 10]
    ELSE sgm

\* CentipedeSegment.update
segment_update(sgm, dt, ms) ==
    LET moved == IF sgm.is_descending
                 THEN handle_descent(sgm, dt)
                 ELSE handle_horizontal_movement(sgm, dt, ms)
    IN  IF moved.y > Px(PlayerAreaY)
        THEN enter_player_area(moved)
        ELSE moved

\* one frame of the followed segment
SegmentUpdate(dt) ==
    /\ seg.y <= Px(MaxY)
    /\ seg' = segment_update(seg, dt, mushrooms)
    /\ last_op' = "update"
    /\ UNCHANGED <<mushrooms, score, lives>>

----------------------------------------------------------------------------
(* Flea, Spider, Scorpion (centipede_game.py) and Enemy (space_shooter.py) *)

\* Whether a hit() finds self.scene still set.  The scene container is not
\* part of the sources: a live object is in its scene, and for a destroyed
\* one both outcomes are kept.
SceneChoices(obj) == IF obj.is_destroyed THEN BOOLEAN ELSE {TRUE}

\* Flea.__init__
NewFlea == [hits_taken |-> 0, is_destroyed |-> FALSE]

\* Spider.__init__, Scorpion.__init__
NewSpider == [is_destroyed |-> FALSE]
NewScorpion == [is_destroyed |-> FALSE]

\* Enemy.__init__: health and points by type, at wave 1
EnemyTypes == {"basic", "fast", "heavy"}
NewEnemy(enemy_type) ==
    [health |-> CASE enemy_type = "fast" -> 25
                  [] enemy_type = "heavy" -> 100
                  [] OTHER -> 50,
     points |-> CASE enemy_type = "fast" -> 150
                  [] enemy_type = "heavy" -> 200
                  [] OTHER -> 100,
     is_destroyed |-> FALSE]

\* Flea.hit: the flea after the call
flea_hit(f) ==
    [f EXCEPT !.hits_taken = f.hits_taken + 1,
              !.is_destroyed = f.is_destroyed
                               \/ f.hits_taken + 1 >= FleaHitsRequired]

\* Flea.hit: the points the call awards
flea_hit_score(f, attached) ==
    IF f.hits_taken + 1 >= FleaHitsRequired /\ attached THEN FleaPoints ELSE 0

\* Spider.hit: the points by distance (pixels) to the player
spider_points(distance) ==
    IF distance < 50 THEN SpiderPointsBase * 3
    ELSE IF distance < 100 THEN SpiderPointsBase * 2
    ELSE SpiderPointsBase

\* the spider-to-player distances explored, one per band of Spider.hit
SpiderDistances == {30, 70, 150}

\* Enemy.hit: the enemy after the call; without a scene the lookup of the
\* player raises before destroy() is reached
enemy_hit(e, damage, attached) ==
    [e EXCEPT !.health = e.health - damage,
              !.is_destroyed = e.is_destroyed
                               \/ (e.health - damage <= 0 /\ attached)]

\* Enemy.hit: the points the call awards to the player
enemy_hit_score(e, damage, attached) ==
    IF e.health - damage <= 0 /\ attached THEN e.points ELSE 0

FleaHit ==
    /\ flea.hits_taken < MaxFleaHits
    /\ \E attached \in SceneChoices(flea) :
          score' = score + flea_hit_score(flea, attached)
    /\ flea' = flea_hit(flea)
    /\ last_op' = "flea_hit"
    /\ UNCHANGED <<spider, scorpion, enemy, player_score, mushrooms>>

SpiderHit(distance) ==
    /\ score < MaxScore
    /\ \E attached \in SceneChoices(spider) :
          score' = score + (IF attached THEN spider_points(distance) ELSE 0)
    /\ spider' = destroy(spider)
    /\ last_op' = "spider_hit"
    /\ UNCHANGED <<flea, scorpion, enemy, player_score, mushrooms>>

ScorpionHit ==
    /\ score < MaxScore
    /\ \E attached \in SceneChoices(scorpion) :
          score' = score + (IF attached THEN ScorpionPoints ELSE 0)
    /\ scorpion' = destroy(scorpion)
    /\ last_op' = "scorpion_hit"
    /\ UNCHANGED <<flea, spider, enemy, player_score, mushrooms>>

\* Enemy.hit from a PlayerBullet
EnemyHit ==
    /\ enemy.health > -MaxOverkill
    /\ \E attached \in SceneChoices(enemy) :
          /\ enemy' = enemy_hit(enemy, BulletDamage, attached)
          /\ player_score' = player_score
                             + enemy_hit_score(enemy, BulletDamage, attached)
    /\ last_op' = "enemy_hit"
    /\ UNCHANGED <<flea, spider, scorpion, score, mushrooms>>

----------------------------------------------------------------------------
(* SpaceShooterGame: the wave controller.  Times are in hundredths of a     *)
(* second.                                                                 *)

Max(a, b) == IF a >= b THEN a ELSE b
Min(a, b) == IF a <= b THEN a ELSE b

\* SpaceShooterGame.__init__ and setup_game; `enemies` is the number of live
\* Enemy objects of the scene, player_health is self.player.health
NewShooterGame ==
    [wave |-> 1,
     enemies_spawned |-> 0,
     enemies_per_wave |-> InitialEnemiesPerWave,
     enemy_spawn_rate |-> InitialEnemySpawnRate,
     enemy_spawn_timer |-> 0,
     powerup_spawn_timer |-> 0,
     game_over |-> FALSE,
     enemies |-> 0,
     player_health |-> PlayerMaxHealth]

\* update: "Spawn enemies"
spawn_enemy_step(g) ==
    IF /\ g.enemy_spawn_timer >= g.enemy_spawn_rate
       /\ g.enemies_spawned < g.enemies_per_wave
    THEN [g EXCEPT !.enemies = g.enemies + 1,
                   !.enemy_spawn_timer = 0,
                   !.enemies_spawned = g.enemies_spawned + 1]
    ELSE g

\* update: "Spawn power-ups"; the PowerUp objects are not followed
spawn_powerup_step(g) ==
    IF g.powerup_spawn_timer >= PowerupSpawnRate + (g.wave - 1) * 200
    THEN [g EXCEPT !.powerup_spawn_timer = 0]
    ELSE g

\* variant: the wave is complete as soon as its spawn cap is reached
wave_complete_cap_only(g) == g.enemies_spawned >= g.enemies_per_wave

\* update: "Check wave completion"
wave_complete(g) == g.enemies_spawned >= g.enemies_per_wave /\ g.enemies = 0

\* variant: the new spawn rate is not clamped
next_wave_unclamped(g) ==
    [g EXCEPT !.wave = g.wave + 1,
              !.enemies_spawned = 0,
              !.enemies_per_wave = Min(15, 8 + (g.wave + 1) * 2),
              !.enemy_spawn_rate = 200 - (g.wave + 1) * 10]

\* variant: the wave counter skips a wave
next_wave_skips(g) ==
    [g EXCEPT !.wave = g.wave + 2,
              !.enemies_spawned = 0,
              !.enemies_per_wave = Min(15, 8 + (g.wave + 2) * 2),
              !.enemy_spawn_rate = Max(80, 200 - (g.wave + 2) * 10)]

\* _next_wave
next_wave(g) ==
    [g EXCEPT !.wave = g.wave + 1,
              !.enemies_spawned = 0,
              !.enemies_per_wave = Min(15, 8 + (g.wave + 1) * 2),
              !.enemy_spawn_rate = Max(80, 200 - (g.wave + 1) * 10)]

\* _next_wave: the completion bonus
next_wave_bonus(g) == (g.wave + 1) * 500

\* variant: the scene is not cleared, the live enemies stay
restart_game_keeps_enemies(g) == [NewShooterGame EXCEPT !.enemies = g.enemies]

\* _restart_game with setup_game: every controller field, an empty scene
\* and a new Player
restart_game(g) == NewShooterGame

\* the part of update after the game-over and player-death tests
running_tick(g, dt) ==
    LET timed == [g EXCEPT !.enemy_spawn_timer = g.enemy_spawn_timer + dt,
                           !.powerup_spawn_timer = g.powerup_spawn_timer + dt]
        spawned == spawn_powerup_step(spawn_enemy_step(timed))
    IN  IF wave_complete(spawned) THEN next_wave(spawned) ELSE spawned

\* SpaceShooterGame.update
shooter_update(g, dt, r_pressed) ==
    IF g.game_over
    THEN IF r_pressed THEN restart_game(g) ELSE g
    ELSE IF g.player_health <= 0
    THEN [g EXCEPT !.game_over = TRUE]
    ELSE running_tick(g, dt)

\* the update runs the controller's spawn and completion steps
Running(g) == ~g.game_over /\ g.player_health > 0

ShooterUpdate(dt, r_pressed) ==
    /\ shooter_game.enemy_spawn_timer + dt <= MaxTimer
    /\ shooter_game.wave < MaxWave
    /\ shooter_game' = shooter_update(shooter_game, dt, r_pressed)
    /\ player_score' =
          IF shooter_game.game_over
          THEN IF r_pressed THEN 0 ELSE player_score
          ELSE IF shooter_game'.wave > shooter_game.wave
          THEN player_score + next_wave_bonus(shooter_game)
          ELSE player_score
    /\ flash_timers' =
          IF shooter_game.game_over /\ r_pressed THEN <<>> ELSE flash_timers
    /\ last_op' = "shooter_update"

\* Player.take_damage
take_damage(g, damage, has_shield) ==
    IF has_shield
    THEN g
    ELSE [g EXCEPT !.player_health = Max(0, g.player_health - damage)]

\* a call of Player.take_damage
TakeDamage(damage, has_shield) ==
    /\ shooter_game' = take_damage(shooter_game, damage, has_shield)
    /\ last_op' = IF has_shield THEN "take_damage_shielded" ELSE "take_damage"
    /\ UNCHANGED <<player_score, flash_timers>>

PowerTypes == {"health", "speed", "weapon", "shield"}

\* variant: the health power-up is not capped
activate_power_up_uncapped(g, power_type) ==
    IF power_type = "health"
    THEN [g EXCEPT !.player_health = g.player_health + 50]
    ELSE g

\* Player.activate_power_up; speed, rapid fire and the shield timer are not
\* followed
activate_power_up(g, power_type) ==
    IF power_type = "health"
    THEN [g EXCEPT !.player_health = Min(PlayerMaxHealth, g.player_health + 50)]
    ELSE g

\* PowerUp._check_player_collision -> Player.activate_power_up
ActivatePowerUp(power_type) ==
    /\ shooter_game' = activate_power_up(shooter_game, power_type)
    /\ last_op' = "power_up_" \o power_type
    /\ UNCHANGED <<player_score, flash_timers>>

\* Enemy.update: an enemy that has left the screen destroys itself
EnemyLeaves ==
    /\ shooter_game.enemies > 0
    /\ shooter_game' = [shooter_game EXCEPT !.enemies = shooter_game.enemies - 1]
    /\ last_op' = "enemy_leaves"
    /\ UNCHANGED <<player_score, flash_timers>>

\* EnemyBullet._check_player_collision
EnemyBulletHit(has_shield) ==
    /\ shooter_game' = take_damage(shooter_game, EnemyBulletDamage, has_shield)
    /\ last_op' = "enemy_bullet_hit"
    /\ UNCHANGED <<player_score, flash_timers>>

----------------------------------------------------------------------------
(* FlashTimer *)

\* FlashTimer.__init__; callbacks counts the invocations of self.callback
FlashTimer(duration) ==
    [timer |-> 0, duration |-> duration, is_destroyed |-> FALSE, callbacks |-> 0]

\* variant: the timer fires and stays in the scene
flash_update_no_destroy(ft, dt) ==
    IF ft.timer + dt >= ft.duration
    THEN [ft EXCEPT !.timer = ft.timer + dt,
                    !.callbacks = ft.callbacks + 1]
    ELSE [ft EXCEPT !.timer = ft.timer + dt]

\* FlashTimer.update
flash_update(ft, dt) ==
    IF ft.timer + dt >= ft.duration
    THEN [ft EXCEPT !.timer = ft.timer + dt,
                    !.callbacks = ft.callbacks + 1,
                    !.is_destroyed = TRUE]
    ELSE [ft EXCEPT !.timer = ft.timer + dt]

\* The frame loop updates the live objects of the scene; the loop is not
\* part of the sources.
EngineUpdates(obj) == ~obj.is_destroyed

FlashUpdate(i, dt) ==
    /\ EngineUpdates(flash_timers[i])
    /\ flash_timers[i].timer < MaxFlashTime
    /\ flash_timers' = [flash_timers EXCEPT ![i] = flash_update(flash_timers[i], dt)]
    /\ last_op' = "flash_update"
    /\ UNCHANGED <<shooter_game, player_score>>

\* Enemy._check_player_collision, the enemy within 30 pixels of the player
EnemyRams(has_shield) ==
    /\ shooter_game.enemies > 0
    /\ Len(flash_timers) < MaxFlash
    /\ shooter_game' =
          [take_damage(shooter_game, RamDamage, has_shield)
              EXCEPT !.enemies = shooter_game.enemies - 1]
    /\ flash_timers' = Append(flash_timers, FlashTimer(FlashDuration))
    /\ last_op' = "enemy_rams"
    /\ UNCHANGED player_score

----------------------------------------------------------------------------
(* CentipedeGame: the level controller.  Times are in hundredths of a      *)
(* second.                                                                 *)

\* CentipedeGame.__init__; last_spawned is the set of enemy kinds that
\* _spawn_enemies added to the scene in the last update
NewCentipedeGame ==
    [level |-> 1,
     current_centipede_length |-> InitialCentipedeLength,
     flea_spawn_timer |-> 0,
     spider_spawn_timer |-> 0,
     scorpion_spawn_timer |-> 0,
     flea_spawn_rate |-> InitialFleaSpawnRate,
     spider_spawn_rate |-> InitialSpiderSpawnRate,
     scorpion_spawn_rate |-> InitialScorpionSpawnRate,
     extra_life_awarded |-> FALSE,
     last_spawned |-> {}]

\* _spawn_enemies: the live mushrooms of the player area
player_area_mushrooms(ms) ==
    {i \in 1..Len(ms) : ~ms[i].is_destroyed /\ ms[i].y > Px(PlayerAreaY)}

\* variant: a refused flea spawn leaves its timer running
spawn_enemies_retry(g, ms) ==
    LET flea_due == g.flea_spawn_timer >= g.flea_spawn_rate
        flea_made == flea_due /\ Cardinality(player_area_mushrooms(ms)) < 3
        spider_due == g.spider_spawn_timer >= g.spider_spawn_rate
        scorpion_due == g.scorpion_spawn_timer >= g.scorpion_spawn_rate
    IN  [g EXCEPT
           !.flea_spawn_timer = IF flea_made THEN 0 ELSE g.flea_spawn_timer,
           !.spider_spawn_timer = IF spider_due THEN 0 ELSE g.spider_spawn_timer,
           !.scorpion_spawn_timer = IF scorpion_due THEN 0 ELSE g.scorpion_spawn_timer,
           !.last_spawned = (IF flea_made THEN {"Flea"} ELSE {})
                            \cup (IF spider_due THEN {"Spider"} ELSE {})
                            \cup (IF scorpion_due THEN {"Scorpion"} ELSE {})]

\* _spawn_enemies
spawn_enemies(g, ms) ==
    LET flea_due == g.flea_spawn_timer >= g.flea_spawn_rate
        flea_made == flea_due /\ Cardinality(player_area_mushrooms(ms)) < 3
        spider_due == g.spider_spawn_timer >= g.spider_spawn_rate
        scorpion_due == g.scorpion_spawn_timer >= g.scorpion_spawn_rate
    IN  [g EXCEPT
           !.flea_spawn_timer = IF flea_due THEN 0 ELSE g.flea_spawn_timer,
           !.spider_spawn_timer = IF spider_due THEN 0 ELSE g.spider_spawn_timer,
           !.scorpion_spawn_timer = IF scorpion_due THEN 0 ELSE g.scorpion_spawn_timer,
           !.last_spawned = (IF flea_made THEN {"Flea"} ELSE {})
                            \cup (IF spider_due THEN {"Spider"} ELSE {})
                            \cup (IF scorpion_due THEN {"Scorpion"} ELSE {})]

\* variant: the flea rate loses its floor
next_level_no_floor(g) ==
    [g EXCEPT
       !.level = g.level + 1,
       !.current_centipede_length = Max(1, g.current_centipede_length - 1),
       !.flea_spawn_rate = g.flea_spawn_rate - 50,
       !.spider_spawn_rate = Max(1000, g.spider_spawn_rate - 100),
       !.scorpion_spawn_rate = Max(1500, g.scorpion_spawn_rate - 200)]

\* variant: the chain length is not clamped
next_level_no_clamp(g) ==
    [g EXCEPT
       !.level = g.level + 1,
       !.current_centipede_length = g.current_centipede_length - 1,
       !.flea_spawn_rate = Max(500, g.flea_spawn_rate - 50),
       !.spider_spawn_rate = Max(1000, g.spider_spawn_rate - 100),
       !.scorpion_spawn_rate = Max(1500, g.scorpion_spawn_rate - 200)]

\* _next_level: the controller's fields (the new chain is spawned by the
\* action)
next_level(g) ==
    [g EXCEPT
       !.level = g.level + 1,
       !.current_centipede_length = Max(1, g.current_centipede_length - 1),
       !.flea_spawn_rate = Max(500, g.flea_spawn_rate - 50),
       !.spider_spawn_rate = Max(1000, g.spider_spawn_rate - 100),
       !.scorpion_spawn_rate = Max(1500, g.scorpion_spawn_rate - 200)]

\* update: remaining_segments is empty
no_remaining_segments(sg) == \A s \in DOMAIN sg : sg[s].is_destroyed

\* spawn_centipede: the new value of centipede_segments
spawned_chain(length) == [i \in 1..length |-> i]

\* CentipedeGame.update.  collided: _check_player_collisions finds an enemy
\* within 12 pixels of the player.  The destroyed segments of a cleared
\* centipede are not followed any further.
CentipedeUpdate(dt, start_x, collided) ==
    LET timed == [centipede_game EXCEPT
                    !.flea_spawn_timer = centipede_game.flea_spawn_timer + dt,
                    !.spider_spawn_timer = centipede_game.spider_spawn_timer + dt,
                    !.scorpion_spawn_timer = centipede_game.scorpion_spawn_timer + dt]
        spawned == spawn_enemies(timed, mushrooms)
        cleared == no_remaining_segments(segs)
        g == IF cleared THEN next_level(spawned) ELSE spawned
        regen == collided /\ lives - 1 > 0
        new_score == IF regen
                     THEN score + Cardinality(regenerated(mushrooms)) * RegeneratePoints
                     ELSE score
        extra == new_score >= ExtraLifeScore /\ ~g.extra_life_awarded
    IN  /\ cleared => centipede_game.level < MaxLevel
        /\ collided => InitialLives - lives < MaxDeaths
        /\ centipede_game' = [g EXCEPT !.extra_life_awarded = g.extra_life_awarded \/ extra]
        /\ segs' = IF cleared
                   THEN spawn_centipede(start_x, g.current_centipede_length)
                   ELSE segs
        /\ centipede_segments' = IF cleared
                                 THEN spawned_chain(g.current_centipede_length)
                                 ELSE centipede_segments
        /\ mushrooms' = IF regen
                        THEN [i \in 1..Len(mushrooms) |->
                                 IF i \in regenerated(mushrooms)
                                 THEN mushroom_heal(mushrooms[i])
                                 ELSE mushrooms[i]]
                        ELSE mushrooms
        /\ score' = new_score
        /\ lives' = (IF collided THEN lives - 1 ELSE lives)
                    + (IF extra THEN 1 ELSE 0)
        /\ last_op' = "centipede_update"

----------------------------------------------------------------------------
(* SnakeGame.  Cells are grid positions, times are in milliseconds.         *)

\* SnakeSegment.__init__ with its grid_pos
SnakeSegment(x, y, is_head) == [x |-> x, y |-> y, is_head |-> is_head]

\* SnakeGame.__init__: no scene, no snake and no food yet
ConstructedSnakeGame ==
    [snake_segments |-> <<>>,
     direction |-> <<1, 0>>,
     next_direction |-> <<1, 0>>,
     move_timer |-> 0,
     move_delay |-> InitialMoveDelay,
     food |-> <<>>,
     score |-> 0,
     game_over |-> FALSE,
     game_started |-> FALSE]

SnakeIdle == snake_game = ConstructedSnakeGame

\* create_snake: three segments from the middle of the grid leftwards
create_snake ==
    [i \in 1..3 |->
        SnakeSegment(GridWidth \div 2 - (i - 1), GridHeight \div 2, i = 1)]

\* a segment of the snake is in the cell
occupied(segments, cell) ==
    \E i \in 1..Len(segments) : segments[i].x = cell[1] /\ segments[i].y = cell[2]

\* the cells in which food is followed
FoodCells == { <<22, 15>>, <<21, 14>>, <<19, 16>> }

\* spawn_food: the cells random.randint can deliver, of which the model
\* follows FoodCells, that hold no segment
food_choices(segments) == {c \in FoodCells : ~occupied(segments, c)}

\* initialize / restart_game: walls, snake and first food
NewSnakeGame(food) ==
    [ConstructedSnakeGame EXCEPT !.snake_segments = create_snake, !.food = food]

\* restart_game; game_scene.cleanup() empties the scene
snake_restart_game(g, food) == NewSnakeGame(food)

\* variant: the turn is tested against the pending direction
handle_input_tests_next(g, key) ==
    CASE key = "up" /\ g.next_direction[2] = 0 -> [g EXCEPT !.next_direction = <<0, -1>>]
      [] key = "down" /\ g.next_direction[2] = 0 -> [g EXCEPT !.next_direction = <<0, 1>>]
      [] key = "left" /\ g.next_direction[1] = 0 -> [g EXCEPT !.next_direction = <<-1, 0>>]
      [] key = "right" /\ g.next_direction[1] = 0 -> [g EXCEPT !.next_direction = <<1, 0>>]
      [] OTHER -> g

\* handle_input
handle_input(g, key) ==
    CASE key = "up" /\ g.direction[2] = 0 -> [g EXCEPT !.next_direction = <<0, -1>>]
      [] key = "down" /\ g.direction[2] = 0 -> [g EXCEPT !.next_direction = <<0, 1>>]
      [] key = "left" /\ g.direction[1] = 0 -> [g EXCEPT !.next_direction = <<-1, 0>>]
      [] key = "right" /\ g.direction[1] = 0 -> [g EXCEPT !.next_direction = <<1, 0>>]
      [] OTHER -> g

\* move_snake: the prospective head cell
new_grid_pos(g) ==
    <<g.snake_segments[1].x + g.next_direction[1],
      g.snake_segments[1].y + g.next_direction[2]>>

\* move_snake: collision with walls
hits_wall(cell) ==
    \/ cell[1] <= 0 \/ cell[1] >= GridWidth - 1
    \/ cell[2] <= 0 \/ cell[2] >= GridHeight - 1

\* variant: the food is taken away when the game ends
end_game_drops_food(g) == [g EXCEPT !.game_over = TRUE, !.food = <<>>]

\* end_game
end_game(g) == [g EXCEPT !.game_over = TRUE]

\* variant: the old head stays a head
as_body_keeps_head(sgm) == sgm

\* move_snake: the old head becomes body
as_body(sgm) == [sgm EXCEPT !.is_head = FALSE]

\* variant: the tail is removed in a move that eats, too
move_snake_no_growth(g, food) ==
    LET cell == new_grid_pos(g)
        turned == [g EXCEPT !.direction = g.next_direction]
        segments == g.snake_segments
        new_head == SnakeSegment(cell[1], cell[2], TRUE)
        ate_food == g.food # <<>> /\ cell = g.food
        kept == SubSeq(segments, 1, Len(segments) - 1)
        shifted == <<new_head>> \o <<as_body(kept[1])>> \o Tail(kept)
    IN  IF hits_wall(cell) \/ occupied(segments, cell)
        THEN end_game(turned)
        ELSE IF ate_food
        THEN [turned EXCEPT
                !.score = g.score + 10,
                !.food = food,
                !.move_delay = Max(50, g.move_delay - 5),
                !.snake_segments = shifted]
        ELSE [turned EXCEPT !.snake_segments = shifted]

\* move_snake; food is the cell spawn_food draws when the snake eats
move_snake(g, food) ==
    LET cell == new_grid_pos(g)
        turned == [g EXCEPT !.direction = g.next_direction]
        segments == g.snake_segments
        new_head == SnakeSegment(cell[1], cell[2], TRUE)
        ate_food == g.food # <<>> /\ cell = g.food
    IN  IF hits_wall(cell) \/ occupied(segments, cell)
        THEN end_game(turned)
        ELSE IF ate_food
        THEN [turned EXCEPT
                !.score = g.score + 10,
                !.food = food,
                !.move_delay = Max(50, g.move_delay - 5),
                !.snake_segments =
                    <<new_head>> \o <<as_body(segments[1])>> \o Tail(segments)]
        ELSE LET kept == SubSeq(segments, 1, Len(segments) - 1)
             IN  [turned EXCEPT
                    !.snake_segments =
                        <<new_head>> \o <<as_body(kept[1])>> \o Tail(kept)]

\* SnakeGame.update
snake_update(g, dt, key, food) ==
    IF g.game_over
    THEN IF key = "r" THEN snake_restart_game(g, food) ELSE g
    ELSE IF ~g.game_started
    THEN IF key = "space" THEN [g EXCEPT !.game_started = TRUE] ELSE g
    ELSE LET steered == handle_input(g, key)
         IN  IF steered.move_timer + dt >= steered.move_delay
             THEN move_snake([steered EXCEPT !.move_timer = 0], food)
             ELSE [steered EXCEPT !.move_timer = steered.move_timer + dt]

Keys == {"none", "up", "down", "left", "right", "space", "r"}

\* the move of this update, if it makes one, stays in the rows followed and
\* eats no more than the food followed
Followed(g, dt, key) ==
    LET steered == handle_input(g, key)
        cell == new_grid_pos(steered)
    IN  (g.game_started /\ ~g.game_over
         /\ steered.move_timer + dt >= steered.move_delay)
        => /\ cell[2] >= GridHeight \div 2 - SnakeBand
           /\ cell[2] <= GridHeight \div 2 + SnakeBand
           /\ cell = g.food => g.score < MaxSnakeScore

\* the cells spawn_food can draw in this update: after create_snake in a
\* restart, before the new head is inserted in a move that eats; <<>> when
\* the update does not call spawn_food
spawn_food_choices(g, dt, key) ==
    LET steered == handle_input(g, key)
        cell == new_grid_pos(steered)
    IN  IF g.game_over
        THEN IF key = "r" THEN food_choices(create_snake) ELSE {<<>>}
        ELSE IF /\ g.game_started
                /\ steered.move_timer + dt >= steered.move_delay
                /\ ~hits_wall(cell)
                /\ ~occupied(g.snake_segments, cell)
                /\ cell = g.food
        THEN food_choices(g.snake_segments)
        ELSE {<<>>}

SnakeUpdate(dt, key, food) ==
    /\ snake_game.snake_segments # <<>>
    /\ Followed(snake_game, dt, key)
    /\ food \in spawn_food_choices(snake_game, dt, key)
    /\ snake_game' = snake_update(snake_game, dt, key, food)
    /\ last_op' = "snake_update"

----------------------------------------------------------------------------
(* Projectiles: Dart (centipede_game.py) and PlayerBullet                   *)
(* (space_shooter.py).  Positions are in tenths of a pixel, a tick's        *)
(* delta_time in hundredths of a second.  The field hits of a projectile    *)
(* counts the hit() calls it has made.                                      *)

\* no projectile of the kind in the scene
NoProjectile == [x |-> 0, y |-> 0, is_destroyed |-> TRUE, hits |-> 0]

\* BugBlaster._shoot from the start position (400, 550): a Dart 10 pixels
\* above the player
NewDart ==
    [x |-> Px(400), y |-> Px(550) - Px(10), is_destroyed |-> FALSE, hits |-> 0]

\* Player._shoot from the start position (100, 300): a PlayerBullet 25
\* pixels in front of the player
NewBullet ==
    [x |-> Px(100) + Px(25), y |-> Px(300), is_destroyed |-> FALSE, hits |-> 0]

\* Vector2.distance_to(...) < r, r in pixels
within(x1, y1, x2, y2, r) ==
    (x1 - x2) * (x1 - x2) + (y1 - y2) * (y1 - y2) < Px(r) * Px(r)

\* Dart._check_collisions: the first live mushroom within 8 pixels, 0 if none
dart_mushroom(d, ms) ==
    LET near == {i \in 1..Len(ms) :
                    ~ms[i].is_destroyed /\ within(d.x, d.y, ms[i].x, ms[i].y, 8)}
    IN  IF near = {} THEN 0 ELSE CHOOSE i \in near : \A j \in near : i <= j

\* Dart.update: the move and the test for leaving the screen
dart_move(d, dt) ==
    LET moved == [d EXCEPT !.y = d.y - (Px(DartSpeed) * dt) \div 100]
    IN  IF moved.y < Px(DartOffscreenY) THEN destroy(moved) ELSE moved

\* the positions of the Flea in the scene at a dart's update: as spawned by
\* Flea.__init__ at y = -10, and further down (Flea.update), in the column of
\* the dart
FleaPositions == { <<Px(400), Px(FleaSpawnY)>>, <<Px(400), Px(100)>>,
                   <<Px(400), Px(300)>> }

\* Dart.update.  The scene of the followed dart holds the mushrooms and one
\* Flea, no segment, Spider or Scorpion.
DartUpdate(dt, flea_pos) ==
    /\ EngineUpdates(dart)
    /\ LET left == dart_move(dart, dt)
       IN  \E attached \in SceneChoices(left) :
              LET m == IF attached THEN dart_mushroom(left, mushrooms) ELSE 0
                  f == /\ attached /\ m = 0 /\ ~flea.is_destroyed
                       /\ within(left.x, left.y, flea_pos[1], flea_pos[2], 10)
              IN  /\ mushrooms' = IF m # 0
                                  THEN [mushrooms EXCEPT ![m] = mushroom_hit(mushrooms[m])]
                                  ELSE mushrooms
                  /\ flea' = IF f THEN flea_hit(flea) ELSE flea
                  /\ score' = score
                              + (IF m # 0 THEN mushroom_hit_score(mushrooms[m]) ELSE 0)
                              + (IF f THEN flea_hit_score(flea, TRUE) ELSE 0)
                  /\ dart' = IF m # 0 \/ f
                             THEN [destroy(left) EXCEPT !.hits = left.hits + 1]
                             ELSE left
    /\ last_op' = "dart_update"
    /\ UNCHANGED <<bullet, breakout_game, spider, scorpion, enemy, player_score, lives>>

\* BugBlaster._shoot; the next dart is followed once the last one is gone
DartShoot ==
    /\ dart.is_destroyed
    /\ dart' = NewDart
    /\ last_op' = "dart_shoot"
    /\ UNCHANGED <<bullet, breakout_game, mushrooms, flea, spider, scorpion,
                   enemy, score, player_score, lives>>

\* PlayerBullet.update: the move and the test for leaving the screen
bullet_move(b, dt) ==
    LET moved == [b EXCEPT !.x = b.x + (Px(BulletSpeed) * dt) \div 100]
    IN  IF moved.x > Px(BulletOffscreenX) THEN destroy(moved) ELSE moved

\* the positions of the Enemy in the scene at a bullet's update: as spawned
\* by Enemy.__init__ at x = 850, and further left (Enemy.update), in the row
\* of the bullet
EnemyPositions == { <<Px(EnemySpawnX), Px(300)>>, <<Px(400), Px(300)>> }

\* PlayerBullet.update.  The scene of the followed bullet holds one Enemy.
BulletUpdate(dt, enemy_pos) ==
    /\ EngineUpdates(bullet)
    /\ LET left == bullet_move(bullet, dt)
       IN  \E attached \in SceneChoices(left) :
              LET e == /\ attached /\ ~enemy.is_destroyed
                       /\ within(left.x, left.y, enemy_pos[1], enemy_pos[2], 20)
              IN  /\ enemy' = IF e THEN enemy_hit(enemy, BulletDamage, TRUE) ELSE enemy
                  /\ player_score' =
                        player_score
                        + (IF e THEN enemy_hit_score(enemy, BulletDamage, TRUE) ELSE 0)
                  /\ bullet' = IF e
                               THEN [destroy(left) EXCEPT !.hits = left.hits + 1]
                               ELSE left
    /\ last_op' = "bullet_update"
    /\ UNCHANGED <<dart, breakout_game, mushrooms, flea, spider, scorpion, score, lives>>

\* Player._shoot; the next bullet is followed once the last one is gone
BulletShoot ==
    /\ bullet.is_destroyed
    /\ bullet' = NewBullet
    /\ last_op' = "bullet_shoot"
    /\ UNCHANGED <<dart, breakout_game, mushrooms, flea, spider, scorpion,
                   enemy, score, player_score, lives>>

----------------------------------------------------------------------------
(* BreakoutGame.  Positions are in pixels.  The velocity of the ball, which *)
(* the paddle and brick collisions change, is not followed: the position    *)
(* the ball has after the frame's update pass is an input of each tick.     *)

\* Brick.__init__
Brick(points, x, y) == [points |-> points, x |-> x, y |-> y]

\* create_bricks: the points of brick_colors, top row first
RowPoints == <<7, 7, 5, 5, 3, 3, 1, 1>>

\* create_bricks: 8 rows of 15 bricks, appended row by row
create_bricks ==
    [k \in 1..(Len(RowPoints) * BricksPerRow) |->
        LET row == (k - 1) \div BricksPerRow
            col == (k - 1) % BricksPerRow
        IN  Brick(RowPoints[row + 1], 100 + col * (40 + 2), 80 + row * (16 + 2))]

\* Ball.__init__ and reset_ball: the start position
BallStart == [x |-> 400, y |-> 500]

\* BreakoutGame.__init__: no bricks yet
ConstructedBreakoutGame ==
    [score |-> 0,
     lives |-> BreakoutLives,
     bricks |-> <<>>,
     game_state |-> "playing",
     ball |-> BallStart]

BreakoutIdle == breakout_game = ConstructedBreakoutGame

\* initialize / setup_game
NewBreakoutGame == [ConstructedBreakoutGame EXCEPT !.bricks = create_bricks]

\* update: the AABB test of the ball (radius 4) against a brick (40 x 16)
ball_overlaps(ball, brick) ==
    /\ ball.x + BallRadius > brick.x - 20
    /\ ball.x - BallRadius < brick.x + 20
    /\ ball.y + BallRadius > brick.y - 8
    /\ ball.y - BallRadius < brick.y + 8

\* variant: the last overlapping brick of the list
last_hit(ball, bricks) ==
    LET over == {k \in 1..Len(bricks) : ball_overlaps(ball, bricks[k])}
    IN  IF over = {} THEN 0 ELSE CHOOSE k \in over : \A j \in over : k >= j

\* update, "Ball-brick collisions": the first overlapping brick of the list,
\* at which the loop breaks; 0 if there is none
first_hit(ball, bricks) ==
    LET over == {k \in 1..Len(bricks) : ball_overlaps(ball, bricks[k])}
    IN  IF over = {} THEN 0 ELSE CHOOSE k \in over : \A j \in over : k <= j

\* update, "Ball-brick collisions"
hit_brick(g) ==
    LET k == first_hit(g.ball, g.bricks)
    IN  IF k = 0
        THEN g
        ELSE [g EXCEPT !.score = g.score + g.bricks[k].points,
                       !.bricks = ListRemove(g.bricks, g.bricks[k])]

\* variant: the game goes on without lives
lose_ball_plays_on(g) ==
    IF g.ball.y > 600
    THEN [g EXCEPT !.lives = g.lives - 1, !.ball = BallStart]
    ELSE g

\* update, "Check for ball lost"
lose_ball(g) ==
    IF g.ball.y > 600
    THEN IF g.lives - 1 <= 0
         THEN [g EXCEPT !.lives = g.lives - 1, !.game_state = "game_over"]
         ELSE [g EXCEPT !.lives = g.lives - 1, !.ball = BallStart]
    ELSE g

\* update, "Check for level complete"
complete_level(g) ==
    IF Len(g.bricks) = 0 THEN [g EXCEPT !.game_state = "level_complete"] ELSE g

\* BreakoutGame.update after the update pass of the frame
breakout_update(g) ==
    IF g.game_state # "playing"
    THEN g
    ELSE complete_level(lose_ball(hit_brick(g)))

\* the positions of the ball that are followed: clear of the bricks, at its
\* start, below the screen, on the first brick, between the first two bricks
\* of the top row, between the two top rows, at the corner of four bricks,
\* and on the last brick
BallPositions ==
    { [x |-> 400, y |-> 300], BallStart, [x |-> 400, y |-> 604],
      [x |-> 100, y |-> 80], [x |-> 121, y |-> 80], [x |-> 100, y |-> 89],
      [x |-> 121, y |-> 89], [x |-> 688, y |-> 206] }

\* one frame: Ball.update has moved the ball to pos, then BreakoutGame.update
BreakoutUpdate(pos) ==
    /\ breakout_game.bricks # <<>> \/ breakout_game.game_state # "playing"
    /\ breakout_game' = breakout_update([breakout_game EXCEPT !.ball = pos])
    /\ last_op' = "breakout_update"

----------------------------------------------------------------------------
(* Initial states *)

\* create_mushroom_field draws each grid cell with probability 0.15
ChainFields == { <<>>, <<NewMushroom(Px(50), Px(100))>> }

\* the variables of the specifications that are not running
ChainIdle == segs = <<>> /\ centipede_segments = <<>>
MoveIdle == seg = NewSegment(FALSE)
CtlIdle ==
    /\ centipede_game = NewCentipedeGame
    /\ shooter_game = NewShooterGame
    /\ flash_timers = <<>>
    /\ SnakeIdle
HitIdle ==
    /\ flea = NewFlea
    /\ spider = NewSpider
    /\ scorpion = NewScorpion
    /\ enemy = NewEnemy("basic")
    /\ player_score = 0

ArcadeIdle ==
    /\ dart = NoProjectile
    /\ bullet = NoProjectile
    /\ BreakoutIdle

\* CentipedeGame.__init__ and setup_game
Init ==
    /\ \E start_x \in {SpawnLeftX, SpawnRightX} :
          segs = spawn_centipede(start_x, InitialCentipedeLength)
    /\ centipede_segments = [i \in 1..InitialCentipedeLength |-> i]
    /\ mushrooms \in ChainFields
    /\ score = 0
    /\ lives = InitialLives
    /\ last_op = "init"
    /\ ArcadeIdle
    /\ CtlIdle
    /\ MoveIdle
    /\ HitIdle

Next ==
    \/ \E s \in DOMAIN segs : SegmentHit(s) /\ UNCHANGED <<arcadeVars, moveVars, hitVars, ctlVars>>
    \/ \E s \in DOMAIN segs : SplitAbsent(s) /\ UNCHANGED <<arcadeVars, moveVars, hitVars, ctlVars>>

Spec == Init /\ [][Next]_vars

\* two mushrooms of the field, a fresh game
MushroomFields ==
    { <<NewMushroom(Px(50), Px(100)),
        NewMushroom(Px(70), Px(100))>> }

InitMushroom ==
    /\ mushrooms \in MushroomFields
    /\ score = 0
    /\ lives = InitialLives
    /\ last_op = "init"
    /\ ArcadeIdle
    /\ CtlIdle
    /\ ChainIdle
    /\ MoveIdle
    /\ HitIdle

NextMushroom ==
    \/ \E i \in 1..Len(mushrooms) :
          MushroomHit(i) /\ UNCHANGED <<arcadeVars, chainVars, moveVars, hitVars, ctlVars>>
    \/ \E i \in 1..Len(mushrooms) :
          MushroomPoison(i) /\ UNCHANGED <<arcadeVars, chainVars, moveVars, hitVars, ctlVars>>
    \/ \E i \in 1..Len(mushrooms) :
          SpiderEat(i) /\ UNCHANGED <<arcadeVars, chainVars, moveVars, hitVars, ctlVars>>
    \/ PlayerDeath /\ UNCHANGED <<arcadeVars, chainVars, moveVars, hitVars, ctlVars>>

SpecMushroom == InitMushroom /\ [][NextMushroom]_vars

\* one entity of each damageable kind, as spawned
InitHit ==
    /\ mushrooms = <<NewMushroom(Px(50), Px(100))>>
    /\ flea = NewFlea
    /\ spider = NewSpider
    /\ scorpion = NewScorpion
    /\ enemy \in {NewEnemy(ty) : ty \in EnemyTypes}
    /\ score = 0
    /\ player_score = 0
    /\ lives = InitialLives
    /\ last_op = "init"
    /\ ArcadeIdle
    /\ CtlIdle
    /\ ChainIdle
    /\ MoveIdle

NextHit ==
    \/ FleaHit /\ UNCHANGED <<arcadeVars, chainVars, moveVars, lives, ctlVars>>
    \/ \E d \in SpiderDistances :
          SpiderHit(d) /\ UNCHANGED <<arcadeVars, chainVars, moveVars, lives, ctlVars>>
    \/ ScorpionHit /\ UNCHANGED <<arcadeVars, chainVars, moveVars, lives, ctlVars>>
    \/ EnemyHit /\ UNCHANGED <<arcadeVars, chainVars, moveVars, lives, ctlVars>>
    \/ \E i \in 1..Len(mushrooms) :
          MushroomHit(i) /\ UNCHANGED <<arcadeVars, chainVars, moveVars, hitVars, ctlVars>>

SpecHit == InitHit /\ [][NextHit]_vars

\* the frame times explored, in hundredths of a second
DTs == {8, 16}

PoisonedMushroom(x, y) == mushroom_poison(NewMushroom(Px(x), Px(y)))
PlainMushroom(x, y) == NewMushroom(Px(x), Px(y))

\* mushroom fields a level can start with: grid cells of create_mushroom_field,
\* some poisoned by a Scorpion of an earlier level
MoveFields ==
    { <<PlainMushroom(390, 100)>>,
      <<PoisonedMushroom(390, 100)>>,
      <<PlainMushroom(390, 100), PoisonedMushroom(410, 100)>> }

HasPoison(ms) == \E i \in 1..Len(ms) : ms[i].is_poisoned

\* a segment of a freshly spawned centipede; a poisoned field is met from the
\* second level on, where the centipede is one segment shorter
InitMove ==
    /\ mushrooms \in MoveFields
    /\ \E start_x \in {SpawnLeftX, SpawnRightX} :
       \E i \in 0..(InitialCentipedeLength - 1) :
          /\ HasPoison(mushrooms) => i < InitialCentipedeLength - 1
          /\ seg = SpawnedSegment(start_x, i)
    /\ score = 0
    /\ lives = InitialLives
    /\ last_op = "init"
    /\ ArcadeIdle
    /\ CtlIdle
    /\ ChainIdle
    /\ HitIdle

NextMove ==
    \E dt \in DTs : SegmentUpdate(dt) /\ UNCHANGED <<arcadeVars, chainVars, hitVars, ctlVars>>

SpecMove == InitMove /\ [][NextMove]_vars

\* everything that belongs to the other games
centipedeVars == <<chainVars, mushrooms, score, lives, moveVars,
                   flea, spider, scorpion, enemy, centipede_game, snake_game,
                   arcadeVars>>

\* the frame times of the wave controller, in hundredths of a second
WaveDTs == {100, 200}

\* SpaceShooterGame.__init__ and setup_game
InitWave ==
    /\ shooter_game = NewShooterGame
    /\ flash_timers = <<>>
    /\ SnakeIdle
    /\ centipede_game = NewCentipedeGame
    /\ mushrooms = <<>>
    /\ score = 0
    /\ lives = InitialLives
    /\ last_op = "init"
    /\ ArcadeIdle
    /\ ChainIdle
    /\ MoveIdle
    /\ HitIdle

NextWave ==
    \/ \E dt \in WaveDTs : \E r_pressed \in BOOLEAN :
          ShooterUpdate(dt, r_pressed) /\ UNCHANGED centipedeVars
    \/ EnemyLeaves /\ UNCHANGED centipedeVars
    \/ \E has_shield \in BOOLEAN :
          EnemyBulletHit(has_shield) /\ UNCHANGED centipedeVars

SpecWave == InitWave /\ [][NextWave]_vars

\* the shooter after its first MaxFlash enemies have been spawned, all of
\* them alive, in frames of one second
InitFlash ==
    /\ shooter_game = [NewShooterGame EXCEPT
                          !.enemies_spawned = MaxFlash,
                          !.enemies = MaxFlash,
                          !.powerup_spawn_timer = MaxFlash * InitialEnemySpawnRate]
    /\ flash_timers = <<>>
    /\ SnakeIdle
    /\ centipede_game = NewCentipedeGame
    /\ mushrooms = <<>>
    /\ score = 0
    /\ lives = InitialLives
    /\ last_op = "init"
    /\ ArcadeIdle
    /\ ChainIdle
    /\ MoveIdle
    /\ HitIdle

NextFlash ==
    \/ \E has_shield \in BOOLEAN :
          EnemyRams(has_shield) /\ UNCHANGED centipedeVars
    \/ \E i \in DOMAIN flash_timers : \E dt \in DTs :
          FlashUpdate(i, dt) /\ UNCHANGED centipedeVars

SpecFlash == InitFlash /\ [][NextFlash]_vars

\* the controller as _next_level leaves it on reaching level L
RECURSIVE LevelState(_)
LevelState(L) ==
    IF L = 1 THEN NewCentipedeGame ELSE next_level(LevelState(L - 1))

\* the least score with which level L is reached: every centipede shot from
\* its tail, one head and length - 1 body segments
RECURSIVE ClearedPoints(_)
ClearedPoints(L) ==
    IF L = 1
    THEN 0
    ELSE ClearedPoints(L - 1) + HeadPoints
         + BodyPoints * (LevelState(L - 1).current_centipede_length - 1)

\* the levels a followed game starts in: the centipedes are short
StartLevels == (MaxLevel - 2)..(MaxLevel - 1)

\* the frame times of the level controller, in hundredths of a second
LevelDTs == {250, 500}

\* fields with and without three mushrooms in the player area (left there
\* by fleas)
LevelFields ==
    { <<>>,
      <<NewMushroom(Px(100), Px(450)), NewMushroom(Px(300), Px(450)),
        NewMushroom(Px(500), Px(450))>> }

\* a level that has just started
InitLevel ==
    /\ \E L \in StartLevels :
          /\ centipede_game = LevelState(L)
          /\ score = ClearedPoints(L)
          /\ \E start_x \in {SpawnLeftX, SpawnRightX} :
                segs = spawn_centipede(start_x, LevelState(L).current_centipede_length)
          /\ centipede_segments = spawned_chain(LevelState(L).current_centipede_length)
    /\ mushrooms \in LevelFields
    /\ lives = InitialLives
    /\ last_op = "init"
    /\ ArcadeIdle
    /\ shooter_game = NewShooterGame
    /\ flash_timers = <<>>
    /\ SnakeIdle
    /\ MoveIdle
    /\ HitIdle

NextLevelStep ==
    \/ \E dt \in LevelDTs : \E start_x \in {SpawnLeftX, SpawnRightX} :
       \E collided \in BOOLEAN :
          /\ CentipedeUpdate(dt, start_x, collided)
          /\ UNCHANGED <<arcadeVars, moveVars, hitVars, shooter_game, flash_timers, snake_game>>
    \/ \E s \in DOMAIN segs :
          SegmentHit(s) /\ UNCHANGED <<arcadeVars, moveVars, hitVars, ctlVars>>

SpecLevel == InitLevel /\ [][NextLevelStep]_vars

\* _next_level applied to the controller
NextLevel(start_x) ==
    /\ centipede_game.level < MaxLevel
    /\ centipede_game' = next_level(centipede_game)
    /\ segs' = spawn_centipede(start_x, centipede_game'.current_centipede_length)
    /\ centipede_segments' = spawned_chain(centipede_game'.current_centipede_length)
    /\ last_op' = "next_level"
    /\ UNCHANGED <<arcadeVars, mushrooms, score, lives, moveVars, hitVars,
                   shooter_game, flash_timers, snake_game>>

\* _next_wave applied to the controller
NextWaveCall ==
    /\ shooter_game.wave < MaxRateWave
    /\ shooter_game' = next_wave(shooter_game)
    /\ player_score' = player_score + next_wave_bonus(shooter_game)
    /\ last_op' = "next_wave"
    /\ UNCHANGED <<arcadeVars, chainVars, mushrooms, score, lives, moveVars,
                   flea, spider, scorpion, enemy, centipede_game, flash_timers,
                   snake_game>>

\* both games as constructed
InitRates ==
    /\ centipede_game = NewCentipedeGame
    /\ \E start_x \in {SpawnLeftX, SpawnRightX} :
          segs = spawn_centipede(start_x, InitialCentipedeLength)
    /\ centipede_segments = spawned_chain(InitialCentipedeLength)
    /\ shooter_game = NewShooterGame
    /\ flash_timers = <<>>
    /\ SnakeIdle
    /\ mushrooms \in ChainFields
    /\ score = 0
    /\ lives = InitialLives
    /\ last_op = "init"
    /\ ArcadeIdle
    /\ MoveIdle
    /\ HitIdle

NextRates ==
    \/ \E start_x \in {SpawnLeftX, SpawnRightX} : NextLevel(start_x)
    \/ NextWaveCall

SpecRates == InitRates /\ [][NextRates]_vars

\* the frame times of the snake, in milliseconds
SnakeDTs == {80, 160}

\* SnakeGame.__init__ and initialize
InitSnake ==
    /\ \E food \in food_choices(create_snake) : snake_game = NewSnakeGame(food)
    /\ centipede_game = NewCentipedeGame
    /\ shooter_game = NewShooterGame
    /\ flash_timers = <<>>
    /\ mushrooms = <<>>
    /\ score = 0
    /\ lives = InitialLives
    /\ last_op = "init"
    /\ ArcadeIdle
    /\ ChainIdle
    /\ MoveIdle
    /\ HitIdle

snakeOthers == <<chainVars, mushrooms, score, lives, moveVars, hitVars,
                 centipede_game, shooter_game, flash_timers, arcadeVars>>

NextSnake ==
    \E dt \in SnakeDTs : \E key \in Keys : \E food \in FoodCells \cup {<<>>} :
       SnakeUpdate(dt, key, food) /\ UNCHANGED snakeOthers

SpecSnake == InitSnake /\ [][NextSnake]_vars

\* a run of the shooter or a run of Snake: the two are separate programs
InitRestart == InitWave \/ InitSnake

NextRestart ==
    \/ SnakeIdle /\ NextWave
    \/ ~SnakeIdle /\ NextSnake

SpecRestart == InitRestart /\ [][NextRestart]_vars

\* a run of the shooter or a run of Centipede, which has segments from its
\* setup on
InitCounters == InitWave \/ InitLevel

NextCounters ==
    \/ segs = <<>> /\ NextWave
    \/ segs # <<>> /\ NextLevelStep

SpecCounters == InitCounters /\ [][NextCounters]_vars

\* the frame times of the projectiles, in hundredths of a second
ShotDTs == {1, 2}

\* a field with a mushroom in the column of the dart, and one without
DartFields == { <<NewMushroom(Px(400), Px(100))>>, <<NewMushroom(Px(300), Px(100))>> }

\* a dart just fired in Centipede
InitDart ==
    /\ dart = NewDart
    /\ bullet = NoProjectile
    /\ BreakoutIdle
    /\ mushrooms \in DartFields
    /\ score = 0
    /\ lives = InitialLives
    /\ last_op = "init"
    /\ CtlIdle
    /\ ChainIdle
    /\ MoveIdle
    /\ HitIdle

\* a bullet just fired in the shooter
InitBullet ==
    /\ dart = NoProjectile
    /\ bullet = NewBullet
    /\ BreakoutIdle
    /\ mushrooms = <<>>
    /\ flea = NewFlea
    /\ spider = NewSpider
    /\ scorpion = NewScorpion
    /\ enemy \in {NewEnemy(ty) : ty \in EnemyTypes}
    /\ player_score = 0
    /\ score = 0
    /\ lives = InitialLives
    /\ last_op = "init"
    /\ CtlIdle
    /\ ChainIdle
    /\ MoveIdle

\* a run of Centipede with its darts or a run of the shooter with its bullets
InitShot == InitDart \/ InitBullet

NextShot ==
    \/ \E dt \in ShotDTs : \E flea_pos \in FleaPositions :
          DartUpdate(dt, flea_pos) /\ UNCHANGED <<chainVars, moveVars, ctlVars>>
    \/ bullet = NoProjectile /\ DartShoot /\ UNCHANGED <<chainVars, moveVars, ctlVars>>
    \/ \E dt \in ShotDTs : \E enemy_pos \in EnemyPositions :
          BulletUpdate(dt, enemy_pos) /\ UNCHANGED <<chainVars, moveVars, ctlVars>>
    \/ dart = NoProjectile /\ BulletShoot /\ UNCHANGED <<chainVars, moveVars, ctlVars>>

SpecShot == InitShot /\ [][NextShot]_vars

\* the points of the bricks lo..hi of a list, by halves
RECURSIVE SumRange(_, _, _)
SumRange(bricks, lo, hi) ==
    IF lo > hi THEN 0
    ELSE IF lo = hi THEN bricks[lo].points
    ELSE LET mid == (lo + hi) \div 2
         IN  SumRange(bricks, lo, mid) + SumRange(bricks, mid + 1, hi)

\* the points of the bricks of a list
SumPoints(bricks) == SumRange(bricks, 1, Len(bricks))

\* the bricks the followed positions of the ball can reach
Reachable(brick) == \E pos \in BallPositions : ball_overlaps(pos, brick)

\* a game in which every brick out of reach of the followed positions has
\* been removed, each for its points
LateBreakoutGame ==
    LET kept == SelectSeq(create_bricks, Reachable)
        removed == SelectSeq(create_bricks, LAMBDA b : ~Reachable(b))
    IN  [NewBreakoutGame EXCEPT !.bricks = kept, !.score = SumPoints(removed)]

\* BreakoutGame.__init__ and initialize, or a game late in its level
InitBreakout ==
    /\ breakout_game \in {NewBreakoutGame, LateBreakoutGame}
    /\ dart = NoProjectile
    /\ bullet = NoProjectile
    /\ mushrooms = <<>>
    /\ score = 0
    /\ lives = InitialLives
    /\ last_op = "init"
    /\ CtlIdle
    /\ ChainIdle
    /\ MoveIdle
    /\ HitIdle

NextBreakout ==
    \E pos \in BallPositions :
       BreakoutUpdate(pos)
       /\ UNCHANGED <<chainVars, mushrooms, score, lives, moveVars, hitVars,
                      ctlVars, dart, bullet>>

SpecBreakout == InitBreakout /\ [][NextBreakout]_vars

\* the damage of an EnemyBullet and of a ramming Enemy
Damages == {EnemyBulletDamage, RamDamage}

\* the calls that change the health of the Player of a fresh game
NextHealth ==
    \/ \E damage \in Damages : \E has_shield \in BOOLEAN :
          TakeDamage(damage, has_shield) /\ UNCHANGED centipedeVars
    \/ \E power_type \in PowerTypes :
          ActivatePowerUp(power_type) /\ UNCHANGED centipedeVars

SpecHealth == InitWave /\ [][NextHealth]_vars

----------------------------------------------------------------------------
(* Claims about the chain (Spec) *)

\* the step is a hit() of the live segment at position k (1-based) of the chain
HitStepAt(k) ==
    /\ ~segs[centipede_segments[k]].is_destroyed
    /\ segs'[centipede_segments[k]].is_destroyed

\* the segments before and after position k of the chain
SubchainBefore(k) == SubSeq(centipede_segments, 1, k - 1)
SubchainAfter(k) == SubSeq(centipede_segments, k + 1, Len(centipede_segments))

NumHeads(sg, sub) == Cardinality({i \in 1..Len(sub) : sg[sub[i]].is_head})

\* C1: after a hit at any index of the tracked chain, each non-empty
\* resulting subchain (the segments before the index, the segments after it)
\* holds exactly one segment with is_head = true.
C1_SingleHeadPerSubchain ==
    [][\A k \in 1..Len(centipede_segments) :
          HitStepAt(k) =>
             /\ Len(SubchainBefore(k)) > 0 => NumHeads(segs', SubchainBefore(k)) = 1
             /\ Len(SubchainAfter(k)) > 0 => NumHeads(segs', SubchainAfter(k)) = 1]_vars

\* C2: after a hit at index k both split-adjacent survivors are heads: the
\* segment that was at k-1 (when there is one) and the segment that was at
\* k+1 (when there is one).
C2_BothNeighboursPromoted ==
    [][\A k \in 1..Len(centipede_segments) :
          HitStepAt(k) =>
             /\ k > 1 => segs'[centipede_segments[k - 1]].is_head
             /\ k < Len(centipede_segments) => segs'[centipede_segments[k + 1]].is_head]_vars

\* C3: a hit at index k removes exactly that segment from the tracked chain:
\* the k segments before it and the N-1-k after it stay, in their order.
C3_SplitConservation ==
    [][\A k \in 1..Len(centipede_segments) :
          HitStepAt(k) =>
             /\ centipede_segments' = SubchainBefore(k) \o SubchainAfter(k)
             /\ Len(centipede_segments') = Len(centipede_segments) - 1
             /\ \A j \in 1..Len(centipede_segments) :
                   j # k => ~segs'[centipede_segments[j]].is_destroyed]_vars

\* a 12-segment chain hit at index 5, after an earlier hit of its tail
C3_Witness ==
    /\ last_op = "hit"
    /\ centipede_segments = <<1, 2, 3, 4, 5, 7, 8, 9, 10, 11>>

\* C4: every hit() of a live segment adds exactly one Mushroom at the
\* segment's position, adds 100 to the score if the segment was a head at
\* that moment and 10 otherwise, and destroys the segment.
C4_HitEffects ==
    [][last_op' = "hit" =>
          \E s \in DOMAIN segs :
             /\ ~segs[s].is_destroyed
             /\ segs'[s].is_destroyed
             /\ \A t \in DOMAIN segs \ {s} :
                   segs'[t].is_destroyed = segs[t].is_destroyed
             /\ mushrooms' = Append(mushrooms,
                   [x |-> segs[s].x, y |-> segs[s].y, hits |-> 0,
                    is_poisoned |-> FALSE, is_destroyed |-> FALSE])
             /\ score' = score + (IF segs[s].is_head THEN 100 ELSE 10)]_vars

\* a head and then a body segment have been hit
C4_Witness ==
    /\ last_op = "hit"
    /\ score = 110
    /\ Len(mushrooms) >= 2
    /\ segs[1].is_destroyed
    /\ segs[5].is_destroyed

\* C7: _split_centipede_at_segment called with a segment that is not tracked
\* leaves the chain unchanged: same members, same order, same is_head flags.
C7_SplitAbsentNoOp ==
    [][last_op' = "split_absent" =>
          /\ centipede_segments' = centipede_segments
          /\ segs' = segs]_vars

\* the call was made with an untracked segment on a non-empty chain
C7_Witness ==
    /\ last_op = "split_absent"
    /\ Len(centipede_segments) > 0
    /\ \E s \in DOMAIN segs : ~Contains(centipede_segments, s)

----------------------------------------------------------------------------
(* Claims about mushrooms (SpecMushroom) and hit() of the other entities
   (SpecHit) *)

\* C5: a mushroom is alive only while hits < 4; a hit() destroys it exactly
\* when it brings hits to 4 (counted since creation or the last heal), and
\* that hit adds exactly 1 to the score, an earlier hit adds nothing.
C5_MushroomDurability ==
    [][/\ \A i \in 1..Len(mushrooms') :
             ~mushrooms'[i].is_destroyed => mushrooms'[i].hits < 4
       /\ last_op' = "mushroom_hit" =>
             /\ mushrooms' = mushrooms => score' = score
             /\ \A i \in 1..Len(mushrooms) :
                   mushrooms'[i] # mushrooms[i] =>
                      /\ ~mushrooms[i].is_destroyed
                      /\ mushrooms'[i].hits = mushrooms[i].hits + 1
                      /\ mushrooms'[i].is_destroyed <=> mushrooms'[i].hits = 4
                      /\ score' = score + (IF mushrooms'[i].hits = 4 THEN 1 ELSE 0)]_vars

\* a mushroom healed by a player death and then destroyed by its 4th hit,
\* the other one damaged and alive
C5_Witness ==
    /\ last_op = "mushroom_hit"
    /\ lives = 2
    /\ score = 6
    /\ mushrooms[1].is_destroyed /\ mushrooms[1].hits = 4
    /\ ~mushrooms[2].is_destroyed /\ mushrooms[2].hits = 3

\* C6: hit() of an entity that is already destroyed is a no-op, for every
\* damageable kind: score, hit and health counters are unchanged.
C6_HitDestroyedNoOp ==
    [][/\ (last_op' = "mushroom_hit"
             /\ \A i \in 1..Len(mushrooms) : mushrooms[i].is_destroyed)
          => UNCHANGED <<mushrooms, score>>
       /\ (last_op' = "flea_hit" /\ flea.is_destroyed)
          => UNCHANGED <<flea, score>>
       /\ (last_op' = "spider_hit" /\ spider.is_destroyed)
          => UNCHANGED <<spider, score>>
       /\ (last_op' = "scorpion_hit" /\ scorpion.is_destroyed)
          => UNCHANGED <<scorpion, score>>
       /\ (last_op' = "enemy_hit" /\ enemy.is_destroyed)
          => UNCHANGED <<enemy, player_score>>]_vars

----------------------------------------------------------------------------
(* Claims about the locomotion of a segment (SpecMove) *)

\* the step is update(dt) of the followed segment
UpdateStep(dt) ==
    /\ seg.y <= Px(MaxY)
    /\ seg' = segment_update(seg, dt, mushrooms)

\* the prospective position of a Moving segment is within 12 pixels of a
\* live poisoned mushroom
PoisonOverlap(dt) ==
    /\ ~seg.is_descending
    /\ \E i \in 1..Len(mushrooms) :
          /\ mushrooms[i].is_poisoned
          /\ overlaps(mushrooms[i], new_pos_x(seg, dt), new_pos_y(seg, dt))

\* the update runs _start_poison_descent
PoisonCollision(dt) ==
    /\ ~seg.is_descending
    /\ ~at_boundary(new_pos_x(seg, dt))
    /\ first_collision(mushrooms, new_pos_x(seg, dt), new_pos_y(seg, dt)) # 0
    /\ mushrooms[first_collision(mushrooms, new_pos_x(seg, dt),
                                 new_pos_y(seg, dt))].is_poisoned

\* C8: in the tick where a Moving segment's prospective position overlaps a
\* live poisoned mushroom, the segment ends the tick with
\* is_poisoned_descent = true, direction = (0, 1) and is_descending = false.
C8_PoisonSkipsNormalDescent ==
    [][\A dt \in DTs :
          (UpdateStep(dt) /\ PoisonOverlap(dt)) =>
             /\ seg'.is_poisoned_descent
             /\ seg'.dx = 0 /\ seg'.dy = 1
             /\ ~seg'.is_descending]_vars

\* C9: while is_poisoned_descent is true every update advances y by exactly
\* speed * dt and leaves descend_progress unchanged.
C9_PoisonDescentNormalSpeed ==
    [][\A dt \in DTs :
          (UpdateStep(dt) /\ seg.is_poisoned_descent) =>
             /\ seg'.y = seg.y + move_distance(seg, dt)
             /\ seg'.descend_progress = seg.descend_progress]_vars

DescentStep(dt) == 2 * ((seg.speed * dt) \div 10)

\* C11: in the tick where a descending segment's descend_progress reaches
\* 16, is_descending becomes false, descend_progress is reset to 0 and
\* direction.x is negated; in the descending ticks before, direction.x is
\* unchanged (and the segment keeps descending).
C11_DescentCompletion ==
    [][\A dt \in DTs :
          (UpdateStep(dt) /\ seg.is_descending) =>
             IF seg.descend_progress + DescentStep(dt) >= Px(16)
             THEN /\ ~seg'.is_descending
                  /\ seg'.descend_progress = 0
                  /\ seg'.dx = -seg.dx
             ELSE /\ seg'.is_descending
                  /\ seg'.descend_progress = seg.descend_progress + DescentStep(dt)
                  /\ seg'.dx = seg.dx]_vars

\* a segment that has come down from the spawn row and is moving
\* horizontally again
C11_Witness ==
    /\ last_op = "update"
    /\ ~seg.is_descending /\ seg.descend_progress = 0
    /\ seg.dx # 0
    /\ seg.y > Px(SpawnY)

\* the prospective position of a Moving segment is at a lateral boundary or
\* within 12 pixels of a live mushroom that is not poisoned
BlockedMove(dt) ==
    /\ ~seg.is_descending
    /\ \/ new_pos_x(seg, dt) <= Px(16)
       \/ new_pos_x(seg, dt) >= Px(784)
       \/ \E i \in 1..Len(mushrooms) :
             /\ ~mushrooms[i].is_poisoned
             /\ overlaps(mushrooms[i], new_pos_x(seg, dt), new_pos_y(seg, dt))

\* C12: in a Moving tick whose prospective position is at a boundary or
\* overlaps a live non-poisoned mushroom the position is left unchanged,
\* is_descending becomes true and descend_progress becomes 0.
C12_BlockedMoveStartsDescent ==
    [][\A dt \in DTs :
          (UpdateStep(dt) /\ BlockedMove(dt)) =>
             /\ seg'.x = seg.x /\ seg'.y = seg.y
             /\ seg'.is_descending
             /\ seg'.descend_progress = 0]_vars

\* a segment stopped in mid-field, in front of a mushroom, about to descend
C12_Witness ==
    /\ last_op = "update"
    /\ seg.is_descending /\ seg.descend_progress = 0
    /\ ~seg.is_poisoned_descent
    /\ seg.x > Px(300) /\ seg.x < Px(500)

\* C13: every descending tick advances y by the amount it adds to
\* descend_progress, so that a complete descent moves the segment down by
\* the accumulated progress, at least 16 pixels.  (While a descent lasts
\* y - descend_progress is the y it started from.)
C13_DescentDisplacement ==
    [][\A dt \in DTs :
          (UpdateStep(dt) /\ seg.is_descending) =>
             /\ seg'.y - seg.y = DescentStep(dt)
             /\ ~seg'.is_descending =>
                   seg'.y - (seg.y - seg.descend_progress) >= Px(16)]_vars

\* the wave's spawn cap is reached and no live Enemy exists
WaveCleared ==
    /\ shooter_game.enemies_spawned >= shooter_game.enemies_per_wave
    /\ shooter_game.enemies = 0

\* the step advances the wave counter
WaveAdvanced == shooter_game'.wave = shooter_game.wave + 1

\* C14 as stated: a controller tick advances the wave counter if and only
\* if the spawn cap is reached and no live Enemy exists, and advancing
\* resets enemies_spawned to 0.
C14_WaveAdvanceIff ==
    [][last_op' = "shooter_update" =>
          /\ WaveAdvanced <=> WaveCleared
          /\ WaveAdvanced => shooter_game'.enemies_spawned = 0]_vars

\* C14: a controller tick of a running game (not over, player health above
\* 0) advances the wave counter if and only if the spawn cap is reached and
\* no live Enemy exists; no other tick advances it; advancing resets
\* enemies_spawned to 0.
C14_RunningWaveAdvanceIff ==
    [][last_op' = "shooter_update" =>
          /\ WaveAdvanced <=> (Running(shooter_game) /\ WaveCleared)
          /\ WaveAdvanced => shooter_game'.enemies_spawned = 0]_vars

\* the second wave has just started
C14_Witness ==
    /\ last_op = "shooter_update"
    /\ shooter_game.wave = 2
    /\ shooter_game.enemies_spawned = 0
    /\ shooter_game.enemies = 0

\* a tick of dt of the running shooter
RunningStep(dt) ==
    /\ Running(shooter_game)
    /\ last_op' = "shooter_update"
    /\ shooter_game' = shooter_update(shooter_game, dt, FALSE)

\* C16: in every tick of the running shooter in which enemy_spawn_timer
\* reaches enemy_spawn_rate the timer is 0 at the end of the spawn step,
\* also when the spawn is refused because the wave's cap is reached.
C16_SpawnTimerReset ==
    [][\A dt \in WaveDTs :
          (/\ RunningStep(dt)
           /\ shooter_game.enemy_spawn_timer + dt >= shooter_game.enemy_spawn_rate)
          => shooter_game'.enemy_spawn_timer = 0]_vars

\* a tick of dt of the Centipede controller
CentipedeStep(dt) ==
    \E start_x \in {SpawnLeftX, SpawnRightX} : \E collided \in BOOLEAN :
       CentipedeUpdate(dt, start_x, collided)

LiveSegments(sg) == {s \in DOMAIN sg : ~sg[s].is_destroyed}

\* C15: a controller tick advances the level only when no live
\* CentipedeSegment exists, and then by one; the advance spawns a chain of
\* max(1, previous length - 1) live segments, so that the next tick finds a
\* live segment and does not advance again.
C15_LevelAdvance ==
    [][last_op' = "centipede_update" =>
          /\ centipede_game'.level \in {centipede_game.level, centipede_game.level + 1}
          /\ centipede_game'.level = centipede_game.level + 1
                <=> LiveSegments(segs) = {}
          /\ centipede_game'.level = centipede_game.level + 1 =>
                /\ Cardinality(LiveSegments(segs')) =
                      IF centipede_game.current_centipede_length - 1 >= 1
                      THEN centipede_game.current_centipede_length - 1
                      ELSE 1
                /\ LiveSegments(segs') # {}
                /\ centipede_game'.current_centipede_length =
                      Cardinality(LiveSegments(segs'))]_vars

\* the last level followed has been reached, from a centipede of length 1,
\* and its centipede is alive
C15_Witness ==
    /\ last_op = "centipede_update"
    /\ centipede_game.level = MaxLevel
    /\ Cardinality(LiveSegments(segs)) = 1

\* C17: when a spawn timer has reached its rate at the spawn check it is 0
\* after the tick, for the flea whether or not a Flea is created; a Flea is
\* created only if fewer than 3 live mushrooms have y > 400; after the
\* spawn step each of the three timers is below its rate.
C17_SpawnTimersReset ==
    [][\A dt \in LevelDTs :
          CentipedeStep(dt) =>
             /\ centipede_game.flea_spawn_timer + dt >= centipede_game.flea_spawn_rate
                   => centipede_game'.flea_spawn_timer = 0
             /\ centipede_game.spider_spawn_timer + dt >= centipede_game.spider_spawn_rate
                   => centipede_game'.spider_spawn_timer = 0
             /\ centipede_game.scorpion_spawn_timer + dt >= centipede_game.scorpion_spawn_rate
                   => centipede_game'.scorpion_spawn_timer = 0
             /\ "Flea" \in centipede_game'.last_spawned =>
                   Cardinality({i \in 1..Len(mushrooms) :
                                   /\ ~mushrooms[i].is_destroyed
                                   /\ mushrooms[i].y > Px(400)}) < 3
             /\ centipede_game'.flea_spawn_timer < centipede_game.flea_spawn_rate
             /\ centipede_game'.spider_spawn_timer < centipede_game.spider_spawn_rate
             /\ centipede_game'.scorpion_spawn_timer < centipede_game.scorpion_spawn_rate]_vars

\* a flea spawn was due and refused, a spider was spawned in the same tick
C17_Witness ==
    /\ last_op = "centipede_update"
    /\ centipede_game.flea_spawn_timer = 0
    /\ "Flea" \notin centipede_game.last_spawned
    /\ "Spider" \in centipede_game.last_spawned

\* C18: over level and wave advances every recomputed spawn rate is
\* non-increasing and at least its floor: 5.0, 10.0, 15.0 seconds for the
\* flea, spider and scorpion rates, 0.8 seconds for the shooter's enemies.
C18_RatesMonotoneAndFloored ==
    [][/\ centipede_game'.flea_spawn_rate <= centipede_game.flea_spawn_rate
       /\ centipede_game'.spider_spawn_rate <= centipede_game.spider_spawn_rate
       /\ centipede_game'.scorpion_spawn_rate <= centipede_game.scorpion_spawn_rate
       /\ shooter_game'.enemy_spawn_rate <= shooter_game.enemy_spawn_rate
       /\ centipede_game'.flea_spawn_rate >= 500
       /\ centipede_game'.spider_spawn_rate >= 1000
       /\ centipede_game'.scorpion_spawn_rate >= 1500
       /\ shooter_game'.enemy_spawn_rate >= 80]_vars

\* every rate has come down to its floor and has been recomputed there
C18_Witness ==
    /\ centipede_game.level >= 8
    /\ centipede_game.flea_spawn_rate = 500
    /\ centipede_game.spider_spawn_rate = 1000
    /\ centipede_game.scorpion_spawn_rate = 1500
    /\ shooter_game.wave >= 13
    /\ shooter_game.enemy_spawn_rate = 80

ClosedForm(base, step, floor, L) ==
    IF base - step * (L - 1) >= floor THEN base - step * (L - 1) ELSE floor

\* C19: at every level L the three rates equal their closed forms
\* max(5.0, 8.0 - 0.5(L-1)), max(10.0, 15.0 - 1.0(L-1)) and
\* max(15.0, 25.0 - 2.0(L-1)); the flea rate is 6.5 at level 4 and 5.0 at
\* level 7.
C19_RatesClosedForm ==
    LET L == centipede_game.level
    IN  /\ centipede_game.flea_spawn_rate = ClosedForm(800, 50, 500, L)
        /\ centipede_game.spider_spawn_rate = ClosedForm(1500, 100, 1000, L)
        /\ centipede_game.scorpion_spawn_rate = ClosedForm(2500, 200, 1500, L)
        /\ L = 4 => centipede_game.flea_spawn_rate = 650
        /\ L = 7 => centipede_game.flea_spawn_rate = 500

\* a level past the one where the flea rate reaches its floor
C19_Witness ==
    /\ last_op = "next_level"
    /\ centipede_game.level = 9
    /\ centipede_game.flea_spawn_rate = 500

\* C20: a FlashTimer has invoked its callback once if its accumulated time
\* has reached its duration and not at all before; it is destroyed exactly
\* when it has fired, and the accumulated time never decreases, so the
\* callback is invoked in the first tick that reaches the duration and in
\* no later one.
C20_FlashFiresOnce ==
    /\ \A i \in DOMAIN flash_timers :
          LET ft == flash_timers[i]
          IN  /\ ft.callbacks = (IF ft.timer >= ft.duration THEN 1 ELSE 0)
              /\ ft.is_destroyed <=> ft.timer >= ft.duration

\* one timer has fired while a younger one is still running
C20_Witness ==
    /\ Len(flash_timers) >= 2
    /\ flash_timers[1].callbacks = 1 /\ flash_timers[1].is_destroyed
    /\ flash_timers[2].timer > 0 /\ flash_timers[2].callbacks = 0

\* C21: a restart (the update that takes a game out of game over) leaves
\* the controller as constructed and the scene without the old entities:
\* the shooter at wave 1 with 0 of 10 enemies spawned, rate 2.0 s, both
\* timers 0, no enemy, no FlashTimer and a new player (health 100, score 0);
\* Snake with three segments heading right from the middle of the grid,
\* score 0, move_delay 0.15 s, move_timer 0, not started, and a new food.
C21_RestartResets ==
    [][/\ (shooter_game.game_over /\ ~shooter_game'.game_over) =>
             /\ shooter_game' =
                   [wave |-> 1, enemies_spawned |-> 0, enemies_per_wave |-> 10,
                    enemy_spawn_rate |-> 200, enemy_spawn_timer |-> 0,
                    powerup_spawn_timer |-> 0, game_over |-> FALSE,
                    enemies |-> 0, player_health |-> 100]
             /\ player_score' = 0
             /\ flash_timers' = <<>>
       /\ (snake_game.game_over /\ ~snake_game'.game_over) =>
             /\ snake_game'.snake_segments =
                   << [x |-> 20, y |-> 15, is_head |-> TRUE],
                      [x |-> 19, y |-> 15, is_head |-> FALSE],
                      [x |-> 18, y |-> 15, is_head |-> FALSE] >>
             /\ snake_game'.direction = <<1, 0>>
             /\ snake_game'.next_direction = <<1, 0>>
             /\ snake_game'.score = 0
             /\ snake_game'.move_delay = 150
             /\ snake_game'.move_timer = 0
             /\ ~snake_game'.game_started
             /\ snake_game'.food \in FoodCells
             /\ ~(snake_game'.food[2] = 15 /\ snake_game'.food[1] \in 18..20)]_vars

\* the shooter has just been restarted
C21_Witness ==
    /\ last_op = "shooter_update"
    /\ shooter_game.wave = 1
    /\ shooter_game.enemies_spawned = 0
    /\ shooter_game.enemy_spawn_timer = 0
    /\ shooter_game.powerup_spawn_timer = 0
    /\ shooter_game.player_health = 100
    /\ ~shooter_game.game_over

\* the segments the tracked chain holds
Tracked == {centipede_segments[i] : i \in 1..Len(centipede_segments)}

\* C22: after spawns, segment hits and level advances the tracked chain
\* holds exactly the live segments of the scene, each of them once.
C22_ChainIsLiveSegments ==
    /\ Tracked = LiveSegments(segs)
    /\ Cardinality(Tracked) = Len(centipede_segments)

\* a centipede of two segments after one hit
C22_Witness ==
    /\ last_op = "hit"
    /\ Len(segs) = 2
    /\ Cardinality(LiveSegments(segs)) = 1
    /\ Len(centipede_segments) = 1

\* C23: a split changes nothing on a surviving segment but is_head:
\* position, direction, speed, is_descending, descend_progress and
\* is_poisoned_descent are what they were before.
C23_SplitFrame ==
    [][(last_op' = "hit" \/ last_op' = "split_absent") =>
          \A s \in DOMAIN segs :
             ~segs'[s].is_destroyed =>
                [segs'[s] EXCEPT !.is_head = segs[s].is_head] = segs[s]]_vars

\* a segment promoted by a split still moves left, as spawned on the right
C23_Witness ==
    /\ last_op = "hit"
    /\ \E s \in DOMAIN segs :
          /\ s >= 2
          /\ segs[s].is_head /\ ~segs[s].is_destroyed
          /\ segs[s].dx = -1

\* C24: the speed is multiplied by 0.7 once, in the first update that ends
\* with y > 400 (y never decreases, so from then on y > 400), and never
\* again; the reduction changes nothing else of what the movement of the
\* update has produced.
C24_SpeedReducedOnce ==
    [][\A dt \in DTs :
          UpdateStep(dt) =>
             LET moved == IF seg.is_descending
                          THEN handle_descent(seg, dt)
                          ELSE handle_horizontal_movement(seg, dt, mushrooms)
             IN  /\ seg'.y >= seg.y
                 /\ seg'.speed = IF seg'.y > Px(400) THEN 35 ELSE 50
                 /\ [seg' EXCEPT !.speed = seg.speed,
                                 !.in_player_area = seg.in_player_area] = moved]_vars

\* a segment two rows into the player area, still at the reduced speed
C24_Witness ==
    /\ last_op = "update"
    /\ seg.y > Px(432)
    /\ seg.speed = 35

\* C25: a player death that leaves lives > 0 heals every live mushroom
\* (hits 0, not poisoned), adds 5 points for each live mushroom that was
\* damaged or poisoned, and leaves the other mushrooms as they were.
C25_RegenerateOnDeath ==
    [][(last_op' = "player_death" /\ lives' > 0) =>
          LET healed == {i \in 1..Len(mushrooms) :
                            /\ ~mushrooms[i].is_destroyed
                            /\ (mushrooms[i].hits > 0 \/ mushrooms[i].is_poisoned)}
          IN  /\ Len(mushrooms') = Len(mushrooms)
              /\ \A i \in 1..Len(mushrooms) :
                    /\ ~mushrooms'[i].is_destroyed =>
                          mushrooms'[i].hits = 0 /\ ~mushrooms'[i].is_poisoned
                    /\ i \notin healed => mushrooms'[i] = mushrooms[i]
              /\ score' = score + 5 * Cardinality(healed)]_vars

\* a death has healed a damaged and a poisoned mushroom
C25_Witness ==
    /\ last_op = "player_death"
    /\ lives > 0
    /\ score >= 10
    /\ \A i \in 1..Len(mushrooms) :
          mushrooms[i].hits = 0 /\ ~mushrooms[i].is_poisoned

\* C26: a poisoned mushroom stays poisoned through hit() and poison(); the
\* flag is cleared only by heal() (a player death), and hit() never changes
\* it.
C26_PoisonPersists ==
    [][\A i \in 1..Len(mushrooms) :
          /\ (mushrooms[i].is_poisoned /\ ~mushrooms'[i].is_poisoned)
                => last_op' = "player_death"
          /\ last_op' = "mushroom_hit"
                => mushrooms'[i].is_poisoned = mushrooms[i].is_poisoned]_vars

\* a poisoned mushroom has been hit since
C26_Witness ==
    /\ last_op = "mushroom_hit"
    /\ \E i \in 1..Len(mushrooms) :
          mushrooms[i].is_poisoned /\ mushrooms[i].hits >= 2

\* C27: the wave counter changes only by +1, in an update that finds the
\* wave cleared, or back to 1 in the update that restarts a game that is
\* over; the level counter changes only by +1, in an update that finds no
\* live segment.
C27_CountersMonotone ==
    [][/\ shooter_game'.wave # shooter_game.wave =>
             /\ last_op' = "shooter_update"
             /\ \/ shooter_game'.wave = shooter_game.wave + 1 /\ WaveCleared
                \/ /\ shooter_game'.wave = 1
                   /\ shooter_game.game_over /\ ~shooter_game'.game_over
       /\ centipede_game'.level # centipede_game.level =>
             /\ last_op' = "centipede_update"
             /\ centipede_game'.level = centipede_game.level + 1
             /\ LiveSegments(segs) = {}]_vars

\* the third wave has been reached
C27_Witness ==
    /\ last_op = "shooter_update"
    /\ shooter_game.wave = 3
    /\ ~shooter_game.game_over

\* C28: every live segment has its x strictly between the boundaries 16
\* and 784, from its spawn on.
C28_InsideLateralBoundaries ==
    ~seg.is_destroyed => (seg.x > Px(16) /\ seg.x < Px(784))

\* C29: the y of a live segment never exceeds 600.
C29_InsidePlayfield ==
    ~seg.is_destroyed => seg.y <= Px(600)

\* C30: lives is never negative: a death takes exactly 1, and once lives
\* is 0 no update takes another.
C30_LivesNeverNegative ==
    [][/\ lives' \in {lives, lives - 1}
       /\ lives' >= 0
       /\ lives = 0 => lives' = 0]_vars

\* C32: after every spawn_food and every completed move the food's cell
\* holds no segment of the snake, the new head included.
C32_FoodCellFree ==
    snake_game.food # <<>> =>
        ~occupied(snake_game.snake_segments, snake_game.food)

\* the two directions are equal or perpendicular
NotOpposite(d, e) == d[1] + e[1] # 0 \/ d[2] + e[2] # 0

\* C33: next_direction is never the opposite of direction, and the direction
\* a move commits is equal or perpendicular to the one committed before
\* (a restart builds a new snake heading right).
C33_NoReversal ==
    [][/\ NotOpposite(snake_game'.direction, snake_game'.next_direction)
       /\ ~snake_game.game_over =>
             NotOpposite(snake_game.direction, snake_game'.direction)]_vars

\* a second turn is pending right after a committed turn
C33_Witness ==
    /\ last_op = "snake_update"
    /\ snake_game.direction = <<0, -1>>
    /\ snake_game.next_direction = <<-1, 0>>
    /\ snake_game.snake_segments[1].y = snake_game.snake_segments[2].y - 1

\* C34: the segments are in pairwise distinct cells strictly inside the
\* walls, and exactly the segment at index 0 is the head.
C34_SnakeWellFormed ==
    LET segments == snake_game.snake_segments
    IN  /\ \A i, j \in 1..Len(segments) :
              i # j => ~(segments[i].x = segments[j].x /\ segments[i].y = segments[j].y)
        /\ \A i \in 1..Len(segments) :
              /\ segments[i].x >= 1 /\ segments[i].x <= 38
              /\ segments[i].y >= 1 /\ segments[i].y <= 28
              /\ segments[i].is_head <=> (i = 1)

\* a grown snake that has turned: four segments over two rows
C34_Witness ==
    /\ last_op = "snake_update"
    /\ Len(snake_game.snake_segments) = 4
    /\ snake_game.snake_segments[1].y # snake_game.snake_segments[4].y

\* an update of a running game that makes a move
SnakeMoveStep(dt, key) ==
    /\ snake_game.game_started /\ ~snake_game.game_over
    /\ snake_game.move_timer + dt >= snake_game.move_delay
    /\ \E food \in FoodCells \cup {<<>>} :
          snake_game' = snake_update(snake_game, dt, key, food)

\* what a collision and a finished game leave alone
SnakeKept(g) == <<g.snake_segments, g.score, g.food, g.move_delay>>

\* C35: a move whose prospective head cell is a wall cell or the cell of a
\* segment (the tail included) sets game_over and leaves snake_segments,
\* score, food and move_delay unchanged; while game_over holds no update
\* changes them, and game_over ends only in a restart.
C35_CollisionEndsGame ==
    [][/\ \A dt \in SnakeDTs : \A key \in Keys :
             LET cell == new_grid_pos(handle_input(snake_game, key))
             IN  SnakeMoveStep(dt, key) =>
                    IF hits_wall(cell) \/ occupied(snake_game.snake_segments, cell)
                    THEN /\ snake_game'.game_over
                         /\ SnakeKept(snake_game') = SnakeKept(snake_game)
                    ELSE ~snake_game'.game_over
       /\ (snake_game.game_over /\ snake_game'.game_over)
             => snake_game' = snake_game
       /\ (snake_game.game_over /\ ~snake_game'.game_over)
             => /\ snake_game'.snake_segments = create_snake
                /\ snake_game'.score = 0]_vars

\* the game has ended with the head turned onto the cell of the tail
C35_Witness ==
    /\ snake_game.game_over
    /\ Len(snake_game.snake_segments) = 4
    /\ new_grid_pos(snake_game) =
          <<snake_game.snake_segments[4].x, snake_game.snake_segments[4].y>>

\* C39: the snake has 3 + score/10 segments: a move that eats adds one
\* segment and 10 points, any other move that succeeds changes neither.
C39_LengthFollowsScore ==
    [][/\ Len(snake_game'.snake_segments) * 10 = 30 + snake_game'.score
       /\ \A dt \in SnakeDTs : \A key \in Keys :
             LET steered == handle_input(snake_game, key)
                 cell == new_grid_pos(steered)
             IN  (SnakeMoveStep(dt, key) /\ ~snake_game'.game_over) =>
                    IF cell = snake_game.food
                    THEN /\ Len(snake_game'.snake_segments) =
                               Len(snake_game.snake_segments) + 1
                         /\ snake_game'.score = snake_game.score + 10
                    ELSE /\ Len(snake_game'.snake_segments) =
                               Len(snake_game.snake_segments)
                         /\ snake_game'.score = snake_game.score]_vars

\* the snake has eaten once and moved on
C39_Witness ==
    /\ last_op = "snake_update"
    /\ ~snake_game.game_over
    /\ snake_game.score = 10
    /\ Len(snake_game.snake_segments) = 4
    /\ snake_game.food # <<>>
    /\ snake_game.move_delay = 145
    /\ snake_game.snake_segments[1].x = 24

\* C31: a projectile that has been destroyed, for leaving the screen or for
\* a hit, applies no further hit(): a projectile makes at most one hit, and
\* one that has left the screen (a Dart above y = -10, a PlayerBullet beyond
\* x = 850) makes none.
C31_DestroyedProjectileHitsNothing ==
    /\ dart.hits <= 1
    /\ bullet.hits <= 1
    /\ dart.y < Px(DartOffscreenY) => dart.hits = 0
    /\ bullet.x > Px(BulletOffscreenX) => bullet.hits = 0

\* C36: the score plus the points of the bricks still in the list is 480,
\* and a tick removes at most one brick, the first of the list that the ball
\* overlaps.
C36_BrickPointsConserved ==
    /\ [](breakout_game.score + SumPoints(breakout_game.bricks) = 480)
    /\ [][\A pos \in BallPositions :
             breakout_game' = breakout_update([breakout_game EXCEPT !.ball = pos])
                => \/ breakout_game'.bricks = breakout_game.bricks
                   \/ \E k \in 1..Len(breakout_game.bricks) :
                         /\ ball_overlaps(pos, breakout_game.bricks[k])
                         /\ \A j \in 1..(k - 1) :
                               ~ball_overlaps(pos, breakout_game.bricks[j])
                         /\ breakout_game'.bricks =
                               SubSeq(breakout_game.bricks, 1, k - 1)
                               \o SubSeq(breakout_game.bricks, k + 1,
                                         Len(breakout_game.bricks))
                         /\ breakout_game'.score =
                               breakout_game.score + breakout_game.bricks[k].points]_vars

\* the ball between the first two bricks of the full wall has removed the
\* first one only
C36_Witness ==
    /\ last_op = "breakout_update"
    /\ breakout_game.ball = [x |-> 121, y |-> 80]
    /\ Len(breakout_game.bricks) = Len(create_bricks) - 1
    /\ breakout_game.bricks[1] = create_bricks[2]
    /\ breakout_game.score = 7

\* what a finished game keeps
BreakoutKept(g) == <<g.score, g.lives, g.bricks, g.game_state>>

\* C37: once game_state is game_over or level_complete no update changes
\* score, lives, bricks or game_state; lives goes down by exactly 1 in a
\* tick that finds the ball below the screen and in no other, never below 0,
\* and game_state becomes game_over in exactly the tick lives reaches 0.
C37_FinishedGameFrozen ==
    [][/\ breakout_game.game_state # "playing" =>
             BreakoutKept(breakout_game') = BreakoutKept(breakout_game)
       /\ breakout_game'.lives \in {breakout_game.lives, breakout_game.lives - 1}
       /\ \A pos \in BallPositions :
             breakout_game' = breakout_update([breakout_game EXCEPT !.ball = pos])
                => (breakout_game'.lives = breakout_game.lives - 1
                       <=> (breakout_game.game_state = "playing" /\ pos.y > 600))
       /\ breakout_game'.lives >= 0
       /\ (breakout_game.game_state = "playing"
           /\ breakout_game'.game_state = "game_over")
             <=> (breakout_game.lives > 0 /\ breakout_game'.lives = 0)]_vars

\* a game that is over has seen another tick
C37_Witness ==
    /\ last_op = "breakout_update"
    /\ breakout_game.game_state = "game_over"
    /\ breakout_game.lives = 0
    /\ breakout_game.score > 0
    /\ breakout_game.ball.y <= 600

\* C38: after any sequence of take_damage and activate_power_up calls the
\* player's health is between 0 and max_health (100), and take_damage with
\* the shield up leaves the health unchanged.
C38_HealthInRange ==
    /\ [](shooter_game.player_health >= 0 /\ shooter_game.player_health <= 100)
    /\ [][last_op' = "take_damage_shielded" =>
             shooter_game'.player_health = shooter_game.player_health]_vars

\* a damaged player has been hit again with the shield up
C38_Witness ==
    /\ last_op = "take_damage_shielded"
    /\ shooter_game.player_health = 5

====
